---- MODULE Spec2Model ----
(***************************************************************************)
(* A model of the ALBA EM2 electrometer client (sardana_albaem/ctrl/em2.py):*)
(* the ZMQ streaming receiver (ZmqStreamReceiver), its ingestion queue      *)
(* (CountableQueue), the worker thread that fills the queue and the control *)
(* thread that starts, stops and reads the receiver, directly or through    *)
(* the Em2 facade (start_acquisition / stop_acquisition).                   *)
(*                                                                         *)
(* Two threads exist: the worker (wpc) and one control thread (cpc). Every  *)
(* access to shared state (the queue under its lock, the running flag, the  *)
(* last worker error) is one step, so that the worker's puts interleave     *)
(* with every step of the control thread's calls.                           *)
(***************************************************************************)
EXTENDS Integers, Sequences, FiniteSets, TLC

\* ------------------------------------------------------------------ bounds
\* Data messages the worker receives in one streaming session.
MaxMsgs == 3
\* The points the instrument reports or returns over the line protocol, and
\* the repetitions of one configuration, are at most MaxPoints.
MaxPoints == 2
\* Data messages of one streaming session of an instrument that streams its
\* frames in order.
MaxStreamed == 2
\* The frame numbers the instrument may put on a message are 0..MaxFrame.
MaxFrame == 1

\* ------------------------------------------------------- program constants
CHANNEL_MIN == 1
CHANNEL_MAX == 4

Channels == CHANNEL_MIN..CHANNEL_MAX

\* The error texts the worker records (em2.py:444-449), without their payload.
JSON_ERROR == "Error deserialising JSON message"
GENERAL_ERROR == "General error receiving message"

\* ------------------------------------------------------------------- state
VARIABLES
    \* ZmqStreamReceiver
    running,                \* _running
    wpc,                    \* position of the thread _thread runs (_zmq_worker)
    messages,               \* _messages: a CountableQueue
    expected_frame_number,  \* _expected_frame_number
    last_worker_error,      \* _last_worker_error
    \* Em2
    software_version,       \* _software_version: <<>> is None, <<v>> a tuple v
    zmq_streaming_supported,\* _zmq_streaming_supported: <<>> is None, <<b>> a bool
    read_index_bug,         \* _read_index_bug: <<>> is None, <<b>> a bool
    long_acquisition_scaling_bug,   \* _long_acquisition_scaling_bug, likewise
    \* Albaem2CoTiCtrl
    synchronization,        \* _synchronization (set by the pool: an AcqSynch)
    use_sw_trigger,         \* _use_sw_trigger
    started,                \* _started
    aborted,                \* _aborted
    nb_points_read_per_start,       \* _nb_points_read_per_start
    nb_points_expected_per_start,   \* _nb_points_expected_per_start
    nb_points_fetched,      \* _nb_points_fetched
    new_data,               \* _new_data: <<>> is {}, <<d>> a filled dict d
    state,                  \* _state
    status,                 \* _status
    acq_time,               \* _acq_time: <<>> before the first PrepareOne sets it
    \* the control thread
    cpc,                    \* its position
    stack,                  \* return positions of the calls in progress
    op,                     \* the public method the caller invoked
    args,                   \* its arguments
    loc,                    \* its local variables
    result,                 \* what it returned or raised (while cpc = "done")
    \* history variables (read by the properties only)
    g_arrivals,             \* data messages the worker received this session
    g_delivered,            \* messages returned by successful reads this session
    g_lossRaised,           \* a read raised a data-loss error this session
    g_errAt,                \* <<k>>: the worker first recorded an error when
                            \* total_count was k; <<>>: no error this session
    g_prior,                \* the receiver as start()/stop() found it
    g_startedRecv,          \* start_acquisition started the receiver thread
    g_sent,                 \* the commands the call in progress has sent to the
                            \* instrument, in order
    g_idn                   \* the version queries (*idn?) sent since Em2 was
                            \* made: "none", "once" or "again"

recvVars == <<running, wpc, messages, expected_frame_number, last_worker_error>>
em2Vars == <<software_version, zmq_streaming_supported, read_index_bug,
             long_acquisition_scaling_bug, g_idn>>
runVars == <<use_sw_trigger, started, aborted, nb_points_read_per_start,
             nb_points_expected_per_start, nb_points_fetched, new_data>>
ctrlVars == <<synchronization, runVars, state, status, acq_time>>
ctlVars == <<cpc, stack, op, args, loc, result>>
sessionGhosts == <<g_arrivals, g_delivered, g_lossRaised, g_errAt>>
callGhosts == <<g_prior, g_startedRecv>>
vars == <<recvVars, em2Vars, ctrlVars, ctlVars, sessionGhosts, callGhosts,
          g_sent>>

\* ---------------------------------------------------------- CountableQueue
\* A queue.Queue with the two counters, all behind one lock: every operation
\* below is atomic.
NewCountableQueue == [queue |-> <<>>, front_position |-> 0, total_count |-> 0]

\* A faulty put: drops the item when the reader has not yet emptied the queue.
PutDropsWhenBusy(cq, item) ==
    IF cq.queue # <<>>
    THEN cq
    ELSE [cq EXCEPT !.queue = Append(@, item), !.total_count = @ + 1]

put(cq, item) ==
    [cq EXCEPT !.queue = Append(@, item), !.total_count = @ + 1]

\* queue.Queue.get() blocks while the queue is empty (holding the lock).
CanGet(cq) == cq.queue # <<>>

GetItem(cq) == Head(cq.queue)

\* A faulty get: counts two items for the one it removes.
GetSkipsOne(cq) ==
    [cq EXCEPT !.queue = Tail(@), !.front_position = @ + 2]

\* A faulty get: removes the item without counting it.
GetKeepsFront(cq) == [cq EXCEPT !.queue = Tail(@)]

get(cq) ==
    [cq EXCEPT !.queue = Tail(@), !.front_position = @ + 1]

\* with self._lock: a get that waits on the empty queue keeps the lock, and
\* a put has to wait for it.
LockHeld == cpc = "rd_get" /\ ~CanGet(messages)

\* ------------------------------------------------------- ZmqStreamReceiver
\* message[channel]: the sample of one channel, distinct per message and channel.
ChannelSample(message, channel) == message.id * (CHANNEL_MAX + 1) + channel

prepare_scpi_format_data == [channel \in Channels |-> <<>>]

NoArgs == [start_position |-> 0, nb_points |-> <<>>, soft_trigger |-> FALSE,
           value |-> 0, repetitions |-> 0, nb_starts |-> 0, axis |-> 0]

NoLoc == [front_position |-> 0, total_count |-> 0, nb_points |-> 0,
          scpi_format_data |-> prepare_scpi_format_data,
          got |-> <<>>, mode |-> "", required |-> FALSE, supported |-> FALSE,
          start_position |-> 0, data |-> prepare_scpi_format_data,
          acquisition_time |-> 0, hardware_state |-> "",
          nb_points_ready |-> 0, data_len |-> 0]

NoResult == [status |-> "", error |-> "", count |-> 0,
             data |-> prepare_scpi_format_data, values |-> <<>>]

NoPrior == [running |-> FALSE, dirty |-> FALSE]

ResetSessionGhosts ==
    /\ g_arrivals' = 0
    /\ g_delivered' = 0
    /\ g_lossRaised' = FALSE
    /\ g_errAt' = <<>>

\* A faulty reset: keeps the expected frame number of the earlier session.
ResetKeepsFrameAccounting ==
    /\ messages' = NewCountableQueue
    /\ UNCHANGED expected_frame_number
    /\ last_worker_error' = ""

reset_worker_state ==
    /\ messages' = NewCountableQueue
    /\ expected_frame_number' = 0
    /\ last_worker_error' = ""

\* ------------------------------------------------------- the worker thread
\* _zmq_worker, lines 426-431: context, socket, connect, poller.
WorkerConnect ==
    /\ wpc = "init"
    /\ wpc' = "loop"
    /\ UNCHANGED <<running, messages, expected_frame_number, last_worker_error,
                   em2Vars, ctrlVars, g_sent, ctlVars, sessionGhosts, callGhosts>>

\* A faulty loop test: while True.
LoopIgnoresStop == "poll"

\* while self._running
LoopTest == IF running THEN "poll" ELSE "dead"

WorkerLoop ==
    /\ wpc = "loop"
    /\ wpc' = LoopTest
    /\ UNCHANGED <<running, messages, expected_frame_number, last_worker_error,
                   em2Vars, ctrlVars, g_sent, ctlVars, sessionGhosts, callGhosts>>

\* poller.poll(timeout=ZMQ_READ_TIMEOUT_MS) returns nothing.
WorkerPollTimeout ==
    /\ wpc = "poll"
    /\ wpc' = "loop"
    /\ UNCHANGED <<running, messages, expected_frame_number, last_worker_error,
                   em2Vars, ctrlVars, g_sent, ctlVars, sessionGhosts, callGhosts>>

\* What one received payload is: a data message with a frame number, another
\* well-formed message, bytes that are no JSON, or a failure of recv() itself
\* (or any other exception, such as JSON that is no object).
Payloads ==
    [kind : {"data"}, frame_number : 0..MaxFrame]
        \cup [kind : {"other", "malformed", "recv_error"}, frame_number : {0}]

RecordError(text) ==
    /\ last_worker_error' = text
    /\ g_errAt' = IF g_errAt = <<>> THEN <<messages.total_count>> ELSE g_errAt

\* A faulty handler: ignores data messages once an error is recorded.
TryGetStopsAfterError(p) ==
    CASE p.kind = "data" ->
            /\ messages' = IF last_worker_error # "" THEN messages
                           ELSE put(messages, [frame_number |-> p.frame_number,
                                               id |-> g_arrivals + 1])
            /\ g_arrivals' = g_arrivals + 1
            /\ UNCHANGED <<last_worker_error, g_errAt>>
      [] p.kind = "other" ->
            UNCHANGED <<messages, g_arrivals, last_worker_error, g_errAt>>
      [] p.kind = "malformed" ->
            /\ RecordError(JSON_ERROR)
            /\ UNCHANGED <<messages, g_arrivals>>
      [] p.kind = "recv_error" ->
            /\ RecordError(GENERAL_ERROR)
            /\ UNCHANGED <<messages, g_arrivals>>

\* A faulty handler: a data message clears the recorded error.
TryGetClearsError(p) ==
    CASE p.kind = "data" ->
            /\ messages' = put(messages, [frame_number |-> p.frame_number,
                                          id |-> g_arrivals + 1])
            /\ g_arrivals' = g_arrivals + 1
            /\ last_worker_error' = ""
            /\ UNCHANGED g_errAt
      [] p.kind = "other" ->
            UNCHANGED <<messages, g_arrivals, last_worker_error, g_errAt>>
      [] p.kind = "malformed" ->
            /\ RecordError(JSON_ERROR)
            /\ UNCHANGED <<messages, g_arrivals>>
      [] p.kind = "recv_error" ->
            /\ RecordError(GENERAL_ERROR)
            /\ UNCHANGED <<messages, g_arrivals>>

\* _try_get_zmq_message(receiver)
try_get_zmq_message(p) ==
    CASE p.kind = "data" ->
            /\ messages' = put(messages, [frame_number |-> p.frame_number,
                                          id |-> g_arrivals + 1])
            /\ g_arrivals' = g_arrivals + 1
            /\ UNCHANGED <<last_worker_error, g_errAt>>
      [] p.kind = "other" ->
            UNCHANGED <<messages, g_arrivals, last_worker_error, g_errAt>>
      [] p.kind = "malformed" ->
            /\ RecordError(JSON_ERROR)
            /\ UNCHANGED <<messages, g_arrivals>>
      [] p.kind = "recv_error" ->
            /\ RecordError(GENERAL_ERROR)
            /\ UNCHANGED <<messages, g_arrivals>>

\* poller.poll(...) reports a payload, one of `payloads`; the worker receives
\* and handles it.
WorkerReceiveFrom(payloads) ==
    /\ wpc = "poll"
    /\ \E p \in payloads :
          /\ p.kind = "data" => g_arrivals < MaxMsgs /\ ~LockHeld
          /\ try_get_zmq_message(p)
    /\ wpc' = "loop"
    /\ UNCHANGED <<running, expected_frame_number, em2Vars, ctrlVars, g_sent, ctlVars,
                   g_delivered, g_lossRaised, callGhosts>>

WorkerReceive == WorkerReceiveFrom(Payloads)

\* The payloads of an instrument that numbers its data messages 0, 1, 2, ...
\* and loses none, up to MaxStreamed of them in a session; a payload may still
\* arrive malformed.
OrderedPayloads ==
    [kind : {"data"} \cap (IF g_arrivals < MaxStreamed THEN {"data"} ELSE {}),
     frame_number : {g_arrivals}]
        \cup [kind : {"malformed"}, frame_number : {0}]

WorkerReceiveOrdered == WorkerReceiveFrom(OrderedPayloads)

Worker == WorkerConnect \/ WorkerLoop \/ WorkerPollTimeout \/ WorkerReceive


\* ------------------------------------------------------ the control thread
\* The call in progress sends one command line to the instrument.
Sent(cmd) == g_sent' = Append(g_sent, cmd)

\* Em2.idn sends the version query.
VersionQueried == g_idn' = IF g_idn = "none" THEN "once" ELSE "again"

\* A method returns: to its caller's next position (which finds the value
\* returned in result), or to the adapter.
Return(res) ==
    IF stack = <<>>
    THEN /\ cpc' = "done"
         /\ result' = res
         /\ stack' = stack
    ELSE /\ cpc' = Head(stack)
         /\ stack' = Tail(stack)
         /\ result' = res

\* An exception: no method of em2.py between the raise and the adapter catches it.
Raise(res) ==
    /\ cpc' = "done"
    /\ stack' = <<>>
    /\ result' = res

Ok == [NoResult EXCEPT !.status = "ok"]

RuntimeError(text) == [NoResult EXCEPT !.status = "RuntimeError", !.error = text]

Em2Error == [NoResult EXCEPT !.status = "Em2Error"]

PriorState ==
    [running |-> running,
     dirty |-> /\ last_worker_error # ""
               /\ messages.front_position > 0
               /\ messages.total_count > messages.front_position
               /\ expected_frame_number > 0]

\* ---- ZmqStreamReceiver.stop
\* self._thread.join() returns once the worker thread has ended.
ThreadJoined == wpc = "dead"

\* if self._running: self._running = False
StopCheck ==
    /\ cpc = "sp_check"
    /\ IF running
       THEN /\ running' = FALSE
            /\ cpc' = "sp_join"
            /\ UNCHANGED <<stack, result>>
       ELSE /\ Return(Ok)
            /\ UNCHANGED running
    /\ UNCHANGED <<wpc, messages, expected_frame_number, last_worker_error,
                   em2Vars, ctrlVars, g_sent, op, args, loc, sessionGhosts, callGhosts>>

StopJoin ==
    /\ cpc = "sp_join"
    /\ ThreadJoined
    /\ Return(Ok)
    /\ UNCHANGED <<recvVars, em2Vars, ctrlVars, g_sent, op, args, loc, sessionGhosts, callGhosts>>

\* ---- ZmqStreamReceiver.start
\* if self._running: self.stop()
StartCheck ==
    /\ cpc = "st_check"
    /\ IF running
       THEN /\ cpc' = "sp_check"
            /\ stack' = <<"st_reset">> \o stack
       ELSE /\ cpc' = "st_reset"
            /\ UNCHANGED stack
    /\ UNCHANGED <<recvVars, em2Vars, ctrlVars, g_sent, op, args, loc, result, sessionGhosts,
                   callGhosts>>

\* lines 407-413: the Thread object, _reset_worker_state(), _running = True
StartReset ==
    /\ cpc = "st_reset"
    /\ reset_worker_state
    /\ ResetSessionGhosts
    /\ running' = TRUE
    /\ cpc' = "st_thread"
    /\ UNCHANGED <<wpc, em2Vars, ctrlVars, g_sent, stack, op, args, loc, result, callGhosts>>

\* self._thread.start()
StartThread ==
    /\ cpc = "st_thread"
    /\ wpc' = "init"
    /\ g_startedRecv' = TRUE
    /\ Return(Ok)
    /\ UNCHANGED <<running, messages, expected_frame_number, last_worker_error,
                   em2Vars, ctrlVars, g_sent, op, args, loc, sessionGhosts, g_prior>>

\* ---- ZmqStreamReceiver.nb_points_received
\* if self._last_worker_error
WorkerErrorSet == last_worker_error # ""

NbPointsCheck ==
    /\ cpc = "np_check"
    /\ IF WorkerErrorSet
       THEN Raise(RuntimeError(last_worker_error))
       ELSE /\ cpc' = "np_count"
            /\ UNCHANGED <<stack, result>>
    /\ UNCHANGED <<recvVars, em2Vars, ctrlVars, g_sent, op, args, loc, sessionGhosts, callGhosts>>

\* return self._messages.total_count
NbPointsCount ==
    /\ cpc = "np_count"
    /\ Return([Ok EXCEPT !.count = messages.total_count])
    /\ UNCHANGED <<recvVars, em2Vars, ctrlVars, g_sent, op, args, loc, sessionGhosts, callGhosts>>


\* ---- ZmqStreamReceiver.read
POSITION_ERROR == "Reads must be from the front of the queue"
COUNT_ERROR == "Cannot read more items than in the queue"
DROPPED_ERROR == "Dropped frame(s)"

\* A faulty count: the items already read count as available.
GetNbAvailableFromTotal(start_position, nb_points, front_position, total_count) ==
    LET available == total_count
    IN  IF start_position # front_position
        THEN [error |-> POSITION_ERROR, nb_points |-> 0]
        ELSE IF nb_points = <<>>
        THEN [error |-> "", nb_points |-> available]
        ELSE IF nb_points[1] > available
        THEN [error |-> COUNT_ERROR, nb_points |-> 0]
        ELSE [error |-> "", nb_points |-> nb_points[1]]

\* A faulty check: start_position is not compared with front_position.
GetNbNoPositionCheck(start_position, nb_points, front_position, total_count) ==
    LET available == total_count - front_position
    IN  IF nb_points = <<>>
        THEN [error |-> "", nb_points |-> available]
        ELSE IF nb_points[1] > available
        THEN [error |-> COUNT_ERROR, nb_points |-> 0]
        ELSE [error |-> "", nb_points |-> nb_points[1]]

\* _get_nb_messages_to_read, given the two counters it has read: the error it
\* raises ("" for none) and the number of messages to read.
get_nb_messages_to_read(start_position, nb_points, front_position, total_count) ==
    LET available == total_count - front_position
    IN  IF start_position # front_position
        THEN [error |-> POSITION_ERROR, nb_points |-> 0]
        ELSE IF nb_points = <<>>
        THEN [error |-> "", nb_points |-> available]
        ELSE IF nb_points[1] > available
        THEN [error |-> COUNT_ERROR, nb_points |-> 0]
        ELSE [error |-> "", nb_points |-> nb_points[1]]

\* What read returns once nb_points messages are in scpi_format_data.
ReadReturns(data, n) ==
    /\ Return([Ok EXCEPT !.data = data])
    /\ g_delivered' = g_delivered + n

\* total_count = self._messages.total_count, and the rest of
\* _get_nb_messages_to_read; scpi_format_data = self._prepare_scpi_format_data().
\* (front_position was read when the call began: see CallRead.)
ReadTotal ==
    /\ cpc = "rd_total"
    /\ LET r == get_nb_messages_to_read(args.start_position, args.nb_points,
                                        loc.front_position, messages.total_count)
       IN  /\ loc' = [loc EXCEPT !.total_count = messages.total_count,
                                 !.nb_points = r.nb_points,
                                 !.scpi_format_data = prepare_scpi_format_data,
                                 !.got = <<>>]
           /\ IF r.error # ""
              THEN /\ Raise(RuntimeError(r.error))
                   /\ g_lossRaised' = TRUE
                   /\ UNCHANGED g_delivered
              ELSE IF r.nb_points = 0
              THEN /\ ReadReturns(prepare_scpi_format_data, 0)
                   /\ UNCHANGED g_lossRaised
              ELSE /\ cpc' = "rd_get"
                   /\ UNCHANGED <<stack, result, g_delivered, g_lossRaised>>
    /\ UNCHANGED <<recvVars, em2Vars, ctrlVars, g_sent, op, args, g_arrivals, g_errAt, callGhosts>>

\* A faulty check: no frame number is ever refused.
FrameNotChecked(message) == FALSE

\* _abort_if_any_frames_dropped: whether it raises.
FrameDropped(message) == message.frame_number # expected_frame_number

\* One round of the for loop: get, _abort_if_any_frames_dropped, the appends;
\* after the last round, the return.
ReadGet ==
    /\ cpc = "rd_get"
    /\ CanGet(messages)
    /\ LET message == GetItem(messages)
           data == [channel \in Channels |->
                        Append(loc.scpi_format_data[channel],
                               ChannelSample(message, channel))]
           got == Append(loc.got, message)
       IN  /\ messages' = get(messages)
           /\ IF FrameDropped(message)
              THEN /\ Raise(RuntimeError(DROPPED_ERROR))
                   /\ loc' = [loc EXCEPT !.got = got]
                   /\ g_lossRaised' = TRUE
                   /\ UNCHANGED <<expected_frame_number, g_delivered>>
              ELSE /\ expected_frame_number' = expected_frame_number + 1
                   /\ loc' = [loc EXCEPT !.scpi_format_data = data, !.got = got]
                   /\ UNCHANGED g_lossRaised
                   /\ IF Len(got) = loc.nb_points
                      THEN ReadReturns(data, loc.nb_points)
                      ELSE /\ cpc' = "rd_get"
                           /\ UNCHANGED <<stack, result, g_delivered>>
    /\ UNCHANGED <<running, wpc, last_worker_error, em2Vars, ctrlVars, g_sent, op, args,
                   g_arrivals, g_errAt, callGhosts>>

\* ------------------------------------------------------------------- Em2
\* The replies of the instrument to ACQU:MODE?.
DeviceModes == {"CURRENT", "FAST_BUFFER", "fast_buffer"}

\* str.upper() on those replies.
Upper(s) == IF s = "fast_buffer" THEN "FAST_BUFFER" ELSE s

\* The versions the instrument may report in its *idn? reply, as
\* software_version parses them: one integer per dotted component.
FirmwareVersions == {<<2, 1, 3>>, <<2, 2>>, <<3>>}

\* A faulty cache: the version is taken for unknown on every access.
VersionForgotten == FALSE

\* self._software_version is not None
VersionKnown == software_version # <<>>

\* What software_version yields: the cached version, or the version of the
\* reply to *idn?.
VersionReplies ==
    IF VersionKnown THEN {software_version[1]} ELSE FirmwareVersions

\* Python's a < b on tuples of integers.
RECURSIVE TupleLess(_, _)
TupleLess(a, b) ==
    IF b = <<>> THEN FALSE
    ELSE IF a = <<>> THEN TRUE
    ELSE IF Head(a) # Head(b) THEN Head(a) < Head(b)
    ELSE TupleLess(Tail(a), Tail(b))

STREAMING_SINCE == <<2, 2>>

\* A faulty flag: streaming taken as supported by every firmware.
SupportedAlways(version) == TRUE

\* self.software_version >= (2, 2)
StreamingSupported(version) == ~TupleLess(version, STREAMING_SINCE)

\* ---- Em2.start_acquisition
\* self.zmq_streaming_required: the reply to ACQU:MODE?, upper-cased, or the
\* Em2Error of an ERROR: reply.
SaRequired ==
    /\ cpc = "sa_required"
    /\ \/ \E reply \in DeviceModes :
             LET required == Upper(reply) = "FAST_BUFFER"
             IN  /\ loc' = [loc EXCEPT !.mode = reply, !.required = required]
                 /\ cpc' = IF required THEN "sa_supported" ELSE "sa_command"
                 /\ UNCHANGED <<stack, result>>
       \/ /\ Raise(Em2Error)
          /\ UNCHANGED loc
    /\ Sent("ACQU:MODE?")
    /\ UNCHANGED <<recvVars, em2Vars, ctrlVars, op, args, sessionGhosts, callGhosts>>

\* self.zmq_streaming_supported, with the *idn? query of software_version
\* when nothing is cached; then self._zmq_receiver.start() if supported.
SaSupported ==
    /\ cpc = "sa_supported"
    /\ \/ \E reply \in VersionReplies :
             LET supported == IF zmq_streaming_supported = <<>>
                              THEN StreamingSupported(reply)
                              ELSE zmq_streaming_supported[1]
             IN  /\ software_version' = IF zmq_streaming_supported = <<>>
                                        THEN <<reply>> ELSE software_version
                 /\ zmq_streaming_supported' = <<supported>>
                 /\ UNCHANGED <<read_index_bug, long_acquisition_scaling_bug>>
                 /\ loc' = [loc EXCEPT !.supported = supported]
                 /\ IF supported
                    THEN /\ cpc' = "st_check"
                         /\ stack' = <<"sa_command">> \o stack
                    ELSE /\ cpc' = "sa_command"
                         /\ UNCHANGED stack
                 /\ UNCHANGED result
       \/ /\ zmq_streaming_supported = <<>>
          /\ ~VersionKnown
          /\ Raise(Em2Error)
          /\ UNCHANGED <<software_version, zmq_streaming_supported,
                         read_index_bug, long_acquisition_scaling_bug, loc>>
    /\ IF zmq_streaming_supported = <<>> /\ ~VersionKnown
       THEN Sent("*idn?") /\ VersionQueried
       ELSE UNCHANGED <<g_sent, g_idn>>
    /\ UNCHANGED <<recvVars, ctrlVars, op, args, sessionGhosts, callGhosts>>

\* self.command('ACQU:START' + (' SWTRIG' if soft_trigger else ''))
SaCommand ==
    /\ cpc = "sa_command"
    /\ \/ Return(Ok)
       \/ Raise(Em2Error)
    /\ Sent(IF args.soft_trigger THEN "ACQU:START SWTRIG" ELSE "ACQU:START")
    /\ UNCHANGED <<recvVars, em2Vars, ctrlVars, op, args, loc, sessionGhosts, callGhosts>>

\* ---- Em2.stop_acquisition
\* self.command('ACQU:STOP True'); if self._zmq_receiver.running: stop()
SoCommand ==
    /\ cpc = "so_command"
    /\ \/ /\ cpc' = "so_check"
          /\ UNCHANGED <<stack, result>>
       \/ Raise(Em2Error)
    /\ Sent("ACQU:STOP True")
    /\ UNCHANGED <<recvVars, em2Vars, ctrlVars, op, args, loc, sessionGhosts, callGhosts>>

SoCheck ==
    /\ cpc = "so_check"
    /\ IF running
       THEN /\ cpc' = "sp_check"
            /\ UNCHANGED <<stack, result>>
       ELSE Return(Ok)
    /\ UNCHANGED <<recvVars, em2Vars, ctrlVars, g_sent, op, args, loc, sessionGhosts, callGhosts>>

\* ---- Em2.nb_points_ready
\* if self._zmq_receiver.running: return self._zmq_receiver.nb_points_received
\* else: return int(self.command('ACQU:NDAT?'))
NprCheck ==
    /\ cpc = "npr_check"
    /\ IF running
       THEN /\ cpc' = "np_check"
            /\ UNCHANGED <<stack, result, g_sent>>
       ELSE /\ \/ \E reply \in 0..MaxPoints : Return([Ok EXCEPT !.count = reply])
               \/ Raise(Em2Error)
            /\ Sent("ACQU:NDAT?")
    /\ UNCHANGED <<recvVars, em2Vars, ctrlVars, op, args, loc, sessionGhosts,
                   callGhosts>>

\* ---- Em2.read
\* A faulty dispatch: the line protocol serves every read.
ReadViaReceiverNever == FALSE

\* if self._zmq_receiver.running
ReadViaReceiver == running

\* read(start_position, nb_points): the receiver's read (with its first
\* statement, front_position = self._messages.front_position) when the receiver
\* is running, _read_via_scpi otherwise.
ErCheck ==
    /\ cpc = "er_check"
    /\ IF ReadViaReceiver
       THEN /\ cpc' = "rd_total"
            /\ loc' = [loc EXCEPT !.front_position = messages.front_position]
       ELSE /\ cpc' = "rs_index"
            /\ UNCHANGED loc
    /\ UNCHANGED <<recvVars, em2Vars, ctrlVars, stack, op, args, result,
                   sessionGhosts, callGhosts, g_sent>>

READ_INDEX_BUG_UNTIL == <<2, 0>>

\* self.software_version <= (2, 0)
ReadIndexBug(version) == ~TupleLess(READ_INDEX_BUG_UNTIL, version)

SCALING_BUG_FROM == <<1, 3, 5>>
SCALING_BUG_BEFORE == <<2, 1>>

\* (1, 3, 5) <= self.software_version < (2, 1)
LongAcquisitionScalingBug(version) ==
    /\ ~TupleLess(version, SCALING_BUG_FROM)
    /\ TupleLess(version, SCALING_BUG_BEFORE)

\* _read_via_scpi, line 304: self.read_index_bug, which asks the instrument
\* for its version (*idn?) when neither the flag nor the version is cached,
\* and the correction of start_position.
RsIndex ==
    /\ cpc = "rs_index"
    /\ \/ \E reply \in VersionReplies :
             LET bug == IF read_index_bug = <<>> THEN ReadIndexBug(reply)
                        ELSE read_index_bug[1]
             IN  /\ software_version' = IF read_index_bug = <<>>
                                        THEN <<reply>> ELSE software_version
                 /\ read_index_bug' = <<bug>>
                 /\ loc' = [loc EXCEPT !.start_position =
                               IF bug THEN args.start_position - 1
                               ELSE args.start_position]
                 /\ cpc' = "rs_command"
                 /\ UNCHANGED <<stack, result, zmq_streaming_supported,
                                long_acquisition_scaling_bug>>
       \/ /\ read_index_bug = <<>>
          /\ ~VersionKnown
          /\ Raise(Em2Error)
          /\ UNCHANGED <<software_version, zmq_streaming_supported,
                         read_index_bug, long_acquisition_scaling_bug, loc>>
    /\ IF read_index_bug = <<>> /\ ~VersionKnown
       THEN Sent("*idn?") /\ VersionQueried
       ELSE UNCHANGED <<g_sent, g_idn>>
    /\ UNCHANGED <<recvVars, ctrlVars, op, args, sessionGhosts, callGhosts>>

\* What the instrument holds for n points after the first `first` ones, as the
\* reply to ACQU:MEAS? gives it: per channel, the sequence of its samples
\* (negative, so that no sample of a reply is a sample of a streamed message).
ScpiData(first, n) ==
    [channel \in Channels |->
        [i \in 1..n |-> 0 - ((first + i) * (CHANNEL_MAX + 1) + channel)]]

\* The replies of the instrument to ACQU:MEAS?: the points asked for, from
\* start_position on; all the points it holds from there on, some number up
\* to MaxPoints, when no count is given.
MeasReplies(start_position, nb_points) ==
    IF nb_points = <<>>
    THEN {ScpiData(start_position, n) : n \in 0..MaxPoints}
    ELSE {ScpiData(start_position, nb_points[1])}

\* Lines 306-310: the ACQU:MEAS? query, its reply as a dict, and
\* self.long_acquisition_scaling_bug (the version is cached by now: line 304
\* has read it).
RsCommand ==
    /\ cpc = "rs_command"
    /\ \/ \E reply \in MeasReplies(args.start_position, args.nb_points) :
             LET bug == IF long_acquisition_scaling_bug = <<>>
                        THEN LongAcquisitionScalingBug(software_version[1])
                        ELSE long_acquisition_scaling_bug[1]
             IN  /\ long_acquisition_scaling_bug' = <<bug>>
                 /\ IF bug
                    THEN /\ cpc' = "rs_correct"
                         /\ loc' = [loc EXCEPT !.data = reply]
                         /\ UNCHANGED <<stack, result>>
                    ELSE /\ Return([Ok EXCEPT !.data = reply])
                         /\ loc' = [loc EXCEPT !.data = reply]
       \/ /\ Raise(Em2Error)
          /\ UNCHANGED <<long_acquisition_scaling_bug, loc>>
    /\ Sent("ACQU:MEAS?")
    /\ UNCHANGED <<recvVars, software_version, zmq_streaming_supported,
                   read_index_bug, g_idn, ctrlVars, op, args, sessionGhosts,
                   callGhosts>>

nb_samples_without_overflow == 8192
adc_raw_sampling_rate == 200000
adc_oversampling_factor == 64
sampling_rate == adc_raw_sampling_rate \div adc_oversampling_factor

\* int(self.acquisition_time / accumulator_overflow_time), the acquisition
\* time being the reply to ACQU:TIME? (milliseconds) times 1E-3, and
\* accumulator_overflow_time being nb_samples_without_overflow / sampling_rate.
nb_accumulator_overflows(time_ms) ==
    (time_ms * sampling_rate) \div (nb_samples_without_overflow * 1000)

\* A faulty bit count: the position of the highest bit set, counted from 0.
RECURSIVE BitLengthFromZero(_)
BitLengthFromZero(n) == IF n <= 1 THEN 0 ELSE 1 + BitLengthFromZero(n \div 2)

\* int.bit_length
RECURSIVE bit_length(_)
bit_length(n) == IF n = 0 THEN 0 ELSE 1 + bit_length(n \div 2)

\* _correct_for_long_acquisition_scaling_bug(data), the acquisition time given
corrected_data(data, time_ms) ==
    IF nb_accumulator_overflows(time_ms) > 0
    THEN LET factor == 2 ^ bit_length(nb_accumulator_overflows(time_ms))
         IN  [channel \in DOMAIN data |->
                 [i \in 1..Len(data[channel]) |-> data[channel][i] * factor]]
    ELSE data

\* The replies of the instrument to ACQU:TIME?, in milliseconds.
AcquisitionTimes == {1000, 2621, 2622, 6000, 11000}

\* Line 311: self._correct_for_long_acquisition_scaling_bug(data), which asks
\* the instrument for the acquisition time.
RsCorrect ==
    /\ cpc = "rs_correct"
    /\ \/ \E reply \in AcquisitionTimes :
             /\ Return([Ok EXCEPT !.data = corrected_data(loc.data, reply)])
             /\ loc' = [loc EXCEPT !.acquisition_time = reply]
       \/ /\ Raise(Em2Error)
          /\ UNCHANGED loc
    /\ Sent("ACQU:TIME?")
    /\ UNCHANGED <<recvVars, em2Vars, ctrlVars, op, args, sessionGhosts,
                   callGhosts>>

\* ----------------------------------------------------------- Albaem2CoTiCtrl
\* sardana.pool.AcqSynch, the values of _synchronization.
AcqSynch ==
    {"SoftwareTrigger", "HardwareTrigger", "SoftwareGate", "HardwareGate",
     "SoftwareStart", "HardwareStart"}

\* The integration time 1e-4 s of line 170, in units of 1e-5 s.
MinIntegrationTime == 10

MIN_TIME_ERROR == "The minimum integration time is 0.1 ms"
START_ERROR == "The Start synchronization is not allowed yet"
UNSUPPORTED_ERROR == "Fast buffer ZMQ streaming not supported"
GATE_ERROR == "HardwareGate synchronization not supported in fast buffer mode"
READALL_ERROR == "ReadAll error"

ValueError(text) == [NoResult EXCEPT !.status = "ValueError", !.error = text]

Exception(text) == [NoResult EXCEPT !.status = "Exception", !.error = text]

\* The replies of the instrument to ACQU:STAT?, after the 'STATE_' prefix.
HardwareStates == {"ON", "RUNNING", "ACQUIRING", "FAULT", "STANDBY"}

\* ---- PrepareOne
\* A faulty check: an integration time of exactly 0.1 ms is refused too.
TimeTooShortOrEqual(value) == value <= MinIntegrationTime

\* value < 1e-4
TimeTooShort(value) == value < MinIntegrationTime

\* A faulty check: only the hardware start synchronization is refused.
StartSynchHardwareOnly(synch) == synch = "HardwareStart"

\* self._synchronization in [AcqSynch.SoftwareStart, AcqSynch.HardwareStart]
StartSynch(synch) == synch \in {"SoftwareStart", "HardwareStart"}

\* Lines 170-175: the checks that ask the instrument nothing.
PoValidate ==
    /\ cpc = "po_valid"
    /\ IF TimeTooShort(args.value)
       THEN Raise(ValueError(MIN_TIME_ERROR))
       ELSE IF StartSynch(synchronization)
       THEN Raise(ValueError(START_ERROR))
       ELSE /\ cpc' = "po_required"
            /\ UNCHANGED <<stack, result>>
    /\ UNCHANGED <<recvVars, em2Vars, ctrlVars, op, args, loc, sessionGhosts,
                   callGhosts, g_sent>>

\* Line 176, self._em2.zmq_streaming_required: the reply to ACQU:MODE?.
PoRequired ==
    /\ cpc = "po_required"
    /\ \/ \E reply \in DeviceModes :
             LET required == Upper(reply) = "FAST_BUFFER"
             IN  /\ loc' = [loc EXCEPT !.required = required]
                 /\ cpc' = IF required THEN "po_supported" ELSE "cv_state"
                 /\ UNCHANGED <<stack, result>>
       \/ /\ Raise(Em2Error)
          /\ UNCHANGED loc
    /\ Sent("ACQU:MODE?")
    /\ UNCHANGED <<recvVars, em2Vars, ctrlVars, op, args, sessionGhosts,
                   callGhosts>>

\* self._synchronization == AcqSynch.HardwareGate
GateSynch(synch) == synch = "HardwareGate"

\* Lines 177-185, self._em2.zmq_streaming_supported (with the *idn? query of
\* software_version when nothing is cached) and the two errors of the fast
\* buffer mode.
PoSupported ==
    /\ cpc = "po_supported"
    /\ \/ \E reply \in VersionReplies :
             LET supported == IF zmq_streaming_supported = <<>>
                              THEN StreamingSupported(reply)
                              ELSE zmq_streaming_supported[1]
             IN  /\ software_version' = IF zmq_streaming_supported = <<>>
                                        THEN <<reply>> ELSE software_version
                 /\ zmq_streaming_supported' = <<supported>>
                 /\ UNCHANGED <<read_index_bug, long_acquisition_scaling_bug>>
                 /\ loc' = [loc EXCEPT !.supported = supported]
                 /\ IF ~supported
                    THEN Raise(ValueError(UNSUPPORTED_ERROR))
                    ELSE IF GateSynch(synchronization)
                    THEN Raise(ValueError(GATE_ERROR))
                    ELSE /\ cpc' = "cv_state"
                         /\ UNCHANGED <<stack, result>>
       \/ /\ zmq_streaming_supported = <<>>
          /\ ~VersionKnown
          /\ Raise(Em2Error)
          /\ UNCHANGED <<software_version, zmq_streaming_supported,
                         read_index_bug, long_acquisition_scaling_bug, loc>>
    /\ IF zmq_streaming_supported = <<>> /\ ~VersionKnown
       THEN Sent("*idn?") /\ VersionQueried
       ELSE UNCHANGED <<g_sent, g_idn>>
    /\ UNCHANGED <<recvVars, ctrlVars, op, args, sessionGhosts, callGhosts>>

\* status in ['ACQUIRING', 'RUNNING']
Acquiring(hardware_state) == hardware_state \in {"ACQUIRING", "RUNNING"}

\* _clean_variables, lines 123-125: the reply to ACQU:STAT?, and
\* stop_acquisition() when an acquisition is in progress.
CvState ==
    /\ cpc = "cv_state"
    /\ \/ \E reply \in HardwareStates :
             /\ IF Acquiring(reply)
                THEN /\ cpc' = "so_command"
                     /\ stack' = <<"cv_reset">> \o stack
                ELSE /\ cpc' = "cv_reset"
                     /\ UNCHANGED stack
             /\ UNCHANGED result
       \/ Raise(Em2Error)
    /\ Sent("ACQU:STAT?")
    /\ UNCHANGED <<recvVars, em2Vars, ctrlVars, op, args, loc, sessionGhosts,
                   callGhosts>>

\* The trigger mode of lines 195-204 (the Start kinds never get here, and
\* AcqSynch has no other kind, so the else of line 205 is not reached).
TriggerMode(synch) ==
    IF synch \in {"SoftwareGate", "SoftwareTrigger"} THEN "SOFTWARE"
    ELSE IF synch = "HardwareTrigger" THEN "HARDWARE"
    ELSE "GATE"

\* A faulty reset: the aborted mark survives.
CleanKeepsAborted == aborted

\* self._aborted = False
CleanAborted == FALSE

\* _clean_variables, lines 127-133, and PrepareOne, lines 188-204.
CvReset ==
    /\ cpc = "cv_reset"
    /\ new_data' = <<>>
    /\ started' = FALSE
    /\ aborted' = CleanAborted
    /\ nb_points_fetched' = 0
    /\ nb_points_read_per_start' = 0
    /\ nb_points_expected_per_start' = args.repetitions
    /\ acq_time' = <<args.value>>
    /\ use_sw_trigger' = (TriggerMode(synchronization) = "SOFTWARE")
    /\ cpc' = "po_time"
    /\ UNCHANGED <<recvVars, em2Vars, synchronization, state, status, stack, op,
                   args, loc, result, sessionGhosts, callGhosts, g_sent>>

\* One of the four settings of lines 211-215 is sent; the instrument accepts
\* it or replies with an error.
Setting(position, cmd, next) ==
    /\ cpc = position
    /\ \/ IF next = "" THEN Return(Ok)
          ELSE /\ cpc' = next
               /\ UNCHANGED <<stack, result>>
       \/ Raise(Em2Error)
    /\ Sent(cmd)
    /\ UNCHANGED <<recvVars, em2Vars, ctrlVars, op, args, loc, sessionGhosts,
                   callGhosts>>

\* self._em2.acquisition_time = self._acq_time
PoTime == Setting("po_time", "ACQU:TIME", "po_trigger")

\* self._em2.trigger_mode = mode
PoTrigger == Setting("po_trigger", "TRIG:MODE", "po_points")

\* self._em2.nb_points = nb_points
PoPoints == Setting("po_points", "ACQU:NTRIG", "po_timestamp")

\* self._em2.timestamp_data = False
PoTimestamp == Setting("po_timestamp", "TMST False", "")

\* ---- StartAll
\* A faulty test: the instrument is armed on every start.
ArmAlways == TRUE

\* if not self._started
ArmNeeded == ~started

\* Lines 234-236: the counter of the start, and start_acquisition(False) on
\* the first start of a configuration.
StaBegin ==
    /\ cpc = "sta_begin"
    /\ nb_points_read_per_start' = 0
    /\ IF ArmNeeded
       THEN /\ cpc' = "sa_required"
            /\ stack' = <<"sta_started">> \o stack
            /\ args' = [args EXCEPT !.soft_trigger = FALSE]
       ELSE /\ cpc' = "sta_trigger"
            /\ UNCHANGED <<stack, args>>
    /\ UNCHANGED <<recvVars, em2Vars, synchronization, use_sw_trigger, started,
                   aborted, nb_points_expected_per_start, nb_points_fetched,
                   new_data, state, status, acq_time, op, loc, result,
                   sessionGhosts, callGhosts, g_sent>>

\* self._started = True
StaStarted ==
    /\ cpc = "sta_started"
    /\ started' = TRUE
    /\ cpc' = "sta_trigger"
    /\ UNCHANGED <<recvVars, em2Vars, synchronization, use_sw_trigger, aborted,
                   nb_points_read_per_start, nb_points_expected_per_start,
                   nb_points_fetched, new_data, state, status, acq_time, stack,
                   op, args, loc, result, sessionGhosts, callGhosts, g_sent>>

\* if self._use_sw_trigger: self._em2.software_trigger()
StaTrigger ==
    /\ cpc = "sta_trigger"
    /\ IF use_sw_trigger
       THEN /\ \/ Return(Ok)
               \/ Raise(Em2Error)
            /\ Sent("TRIG:SWSE True")
       ELSE /\ Return(Ok)
            /\ UNCHANGED g_sent
    /\ UNCHANGED <<recvVars, em2Vars, ctrlVars, op, args, loc, sessionGhosts,
                   callGhosts>>

\* ---- StateAll
allowed_states == {"ACQUIRING", "RUNNING", "ON", "FAULT"}

\* A faulty test: only the value FAULT is a fault.
HardwareFaultOnly(hardware_state) == hardware_state = "FAULT"

\* hardware_state == 'FAULT' or hardware_state not in allowed_states
HardwareFault(hardware_state) ==
    hardware_state = "FAULT" \/ hardware_state \notin allowed_states

\* A faulty test: the aborted mark is not looked at.
AcquisitionOverIgnoresAbort ==
    \/ nb_points_read_per_start = nb_points_expected_per_start
    \/ ~started

\* read_ready or self._aborted or not self._started
AcquisitionOver ==
    \/ nb_points_read_per_start = nb_points_expected_per_start
    \/ aborted
    \/ ~started

\* ReadAll is not called (by the pool or by StateAll) once the counter of the
\* points read has passed every count the instrument reports: this bounds
\* the counter.
ReadAllCallable == nb_points_read_per_start <= MaxPoints

\* A faulty test: every Moving poll reads.
DataNotReadyAlways(hardware_state) == TRUE

\* if hardware_state == 'ON' (in the Moving branch)
DataNotReady(hardware_state) == hardware_state = "ON"

\* StateAll: the reply to ACQU:STAT?, the state derived from it, and ReadAll
\* (whose return ends StateAll) when the data are not ready but the hardware
\* state is ON.
SttState ==
    /\ cpc = "stt_state"
    /\ \/ \E reply \in HardwareStates :
             /\ loc' = [loc EXCEPT !.hardware_state = reply]
             /\ IF HardwareFault(reply)
                THEN /\ state' = "Fault"
                     /\ status' = reply
                     /\ Return(Ok)
                ELSE IF AcquisitionOver
                THEN /\ state' = "On"
                     /\ status' = "ON"
                     /\ Return(Ok)
                ELSE /\ state' = "Moving"
                     /\ status' = "MOVING"
                     /\ IF DataNotReady(reply)
                        THEN /\ ReadAllCallable
                             /\ cpc' = "ra_ready"
                             /\ UNCHANGED <<stack, result>>
                        ELSE Return(Ok)
       \/ /\ Raise(Em2Error)
          /\ UNCHANGED <<loc, state, status>>
    /\ Sent("ACQU:STAT?")
    /\ UNCHANGED <<recvVars, em2Vars, synchronization, runVars, acq_time, op,
                   args, sessionGhosts, callGhosts>>

\* ---- ReadAll
\* nb_points_ready = self._em2.nb_points_ready
RaReady ==
    /\ cpc = "ra_ready"
    /\ cpc' = "npr_check"
    /\ stack' = <<"ra_read">> \o stack
    /\ UNCHANGED <<recvVars, em2Vars, ctrlVars, op, args, loc, result,
                   sessionGhosts, callGhosts, g_sent>>

\* A faulty count: the points fetched before are counted again.
DataLenFromZero(nb_points_ready) == nb_points_ready

\* data_len = nb_points_ready - self._nb_points_fetched
DataLen(nb_points_ready) == nb_points_ready - nb_points_fetched

\* Lines 245-248, up to the call of self._em2.read.
RaRead ==
    /\ cpc = "ra_read"
    /\ LET nb_points_ready == result.count
           data_len == DataLen(nb_points_ready)
       IN  IF nb_points_fetched < nb_points_ready
           THEN /\ nb_points_read_per_start' = nb_points_read_per_start + data_len
                /\ loc' = [loc EXCEPT !.nb_points_ready = nb_points_ready,
                                      !.data_len = data_len]
                /\ args' = [args EXCEPT !.start_position = nb_points_fetched,
                                        !.nb_points = <<data_len>>]
                /\ cpc' = "er_check"
                /\ stack' = <<"ra_store">> \o stack
                /\ UNCHANGED result
           ELSE /\ Return(Ok)
                /\ UNCHANGED <<nb_points_read_per_start, loc, args>>
    /\ UNCHANGED <<recvVars, em2Vars, synchronization, use_sw_trigger, started,
                   aborted, nb_points_expected_per_start, nb_points_fetched,
                   new_data, state, status, acq_time, op, sessionGhosts,
                   callGhosts, g_sent>>

\* Lines 248-262 once self._em2.read has returned: the data are kept, the
\* formulas (all 'value') leave them as they are, CHAN00 gets the acquisition
\* time once per point. An _acq_time that no PrepareOne has set yet raises
\* AttributeError inside the try, after the assignment of line 248.
RaStore ==
    /\ cpc = "ra_store"
    /\ IF acq_time = <<>>
       THEN /\ new_data' = <<[channels |-> result.data, CHAN00 |-> <<>>]>>
            /\ Raise(Exception(READALL_ERROR))
            /\ UNCHANGED nb_points_fetched
       ELSE /\ new_data' =
                  <<[channels |-> result.data,
                     CHAN00 |-> <<[i \in 1..loc.data_len |-> acq_time[1]]>>]>>
            /\ nb_points_fetched' = loc.nb_points_ready
            /\ Return(Ok)
    /\ UNCHANGED <<recvVars, em2Vars, synchronization, use_sw_trigger, started,
                   aborted, nb_points_read_per_start,
                   nb_points_expected_per_start, state, status, acq_time, op,
                   args, loc, sessionGhosts, callGhosts, g_sent>>

\* ---- AbortOne
\* A faulty abort: the acquisition is stopped on every call.
AbortAlways == TRUE

\* if not self._aborted
AbortNeeded == ~aborted

\* AbortOne: the mark, and stop_acquisition() (whose return ends AbortOne).
AbCheck ==
    /\ cpc = "ab_check"
    /\ IF AbortNeeded
       THEN /\ aborted' = TRUE
            /\ cpc' = "so_command"
            /\ UNCHANGED <<stack, result>>
       ELSE /\ Return(Ok)
            /\ UNCHANGED aborted
    /\ UNCHANGED <<recvVars, em2Vars, synchronization, use_sw_trigger, started,
                   nb_points_read_per_start, nb_points_expected_per_start,
                   nb_points_fetched, new_data, state, status, acq_time, op,
                   args, loc, sessionGhosts, callGhosts, g_sent>>

\* ------------------------------------------------------------- the caller
\* The adapter calls one public method at a time.
Call(name, a, first) ==
    /\ cpc = "idle"
    /\ op' = name
    /\ args' = a
    /\ cpc' = first
    /\ g_prior' = PriorState
    /\ g_startedRecv' = FALSE
    /\ g_sent' = <<>>
    /\ UNCHANGED <<recvVars, em2Vars, ctrlVars, stack, result, sessionGhosts>>

CallStart == Call("start", NoArgs, "st_check") /\ UNCHANGED loc

CallStop == Call("stop", NoArgs, "sp_check") /\ UNCHANGED loc

CallNbPointsReceived ==
    Call("nb_points_received", NoArgs, "np_check") /\ UNCHANGED loc

\* read(start_position, nb_points) up to its first statement,
\* front_position = self._messages.front_position: only this thread ever
\* changes front_position, so reading it as the call begins loses no interleaving.
CallRead ==
    \E start_position \in 0..MaxMsgs,
       nb_points \in {<<>>} \cup {<<n>> : n \in 0..MaxMsgs} :
        /\ Call("read", [NoArgs EXCEPT !.start_position = start_position,
                                       !.nb_points = nb_points], "rd_total")
        /\ loc' = [loc EXCEPT !.front_position = messages.front_position]

CallStartAcquisition ==
    /\ \E soft_trigger \in BOOLEAN :
          Call("start_acquisition",
               [NoArgs EXCEPT !.soft_trigger = soft_trigger], "sa_required")
    /\ UNCHANGED loc

CallStopAcquisition ==
    Call("stop_acquisition", NoArgs, "so_command") /\ UNCHANGED loc

\* A caller of the facade's nb_points_ready and read.
CallNbPointsReady == Call("Em2.nb_points_ready", NoArgs, "npr_check") /\ UNCHANGED loc

CallEm2Read ==
    \E start_position \in 0..MaxPoints,
       nb_points \in {<<>>} \cup {<<n>> : n \in 1..MaxPoints} :
        /\ Call("Em2.read", [NoArgs EXCEPT !.start_position = start_position,
                                           !.nb_points = nb_points], "er_check")
        /\ UNCHANGED loc

\* The adapter takes the result; the frame of the call is gone.
Done ==
    /\ cpc = "done"
    /\ cpc' = "idle"
    /\ op' = ""
    /\ args' = NoArgs
    /\ loc' = NoLoc
    /\ result' = NoResult
    /\ g_prior' = NoPrior
    /\ g_startedRecv' = FALSE
    /\ g_sent' = <<>>
    /\ UNCHANGED <<recvVars, em2Vars, ctrlVars, stack, sessionGhosts>>

\* The steps of ZmqStreamReceiver.start and stop, whoever called them.
StartStop == StartCheck \/ StartReset \/ StartThread \/ StopCheck \/ StopJoin

\* A caller that uses the receiver directly.
ReceiverCaller ==
    \/ CallStart \/ CallStop \/ CallNbPointsReceived \/ CallRead
    \/ StartStop
    \/ NbPointsCheck \/ NbPointsCount
    \/ ReadTotal \/ ReadGet
    \/ Done

\* A caller that starts and stops acquisitions through Em2 (and may stop or
\* restart the receiver itself).
FacadeCaller ==
    \/ CallStartAcquisition \/ CallStopAcquisition \/ CallStart \/ CallStop
    \/ StartStop
    \/ SaRequired \/ SaSupported \/ SaCommand
    \/ SoCommand \/ SoCheck
    \/ Done

\* ---------------------------------------------------------- specification
\* The state after Em2.__init__ (and ZmqStreamReceiver.__init__ in it).
InitReceiver ==
    /\ running = FALSE
    /\ wpc = "dead"
    /\ messages = NewCountableQueue
    /\ expected_frame_number = 0
    /\ last_worker_error = ""

\* Em2.__init__, lines 133-136
InitEm2 ==
    /\ software_version = <<>>
    /\ zmq_streaming_supported = <<>>
    /\ read_index_bug = <<>>
    /\ long_acquisition_scaling_bug = <<>>

\* Albaem2CoTiCtrl.__init__
InitCtrl ==
    /\ synchronization = "SoftwareTrigger"
    /\ use_sw_trigger = TRUE
    /\ started = FALSE
    /\ aborted = FALSE
    /\ nb_points_read_per_start = 0
    /\ nb_points_expected_per_start = 0
    /\ nb_points_fetched = 0
    /\ new_data = <<>>
    /\ state = "On"
    /\ status = "On"
    /\ acq_time = <<>>

\* No call in progress, nothing recorded.
InitCaller ==
    /\ cpc = "idle"
    /\ stack = <<>>
    /\ op = ""
    /\ args = NoArgs
    /\ loc = NoLoc
    /\ result = NoResult
    /\ g_arrivals = 0
    /\ g_delivered = 0
    /\ g_lossRaised = FALSE
    /\ g_errAt = <<>>
    /\ g_prior = NoPrior
    /\ g_startedRecv = FALSE
    /\ g_sent = <<>>

\* The version queries are followed in VersionSpec; elsewhere their history
\* starts as that of a session whose queries have failed so far.
Init == InitReceiver /\ InitEm2 /\ g_idn = "again" /\ InitCtrl /\ InitCaller

\* The receiver under every sequence of calls of its public methods.
Next == Worker \/ ReceiverCaller

Spec == Init /\ [][Next]_vars

\* The receiver under Em2.start_acquisition and Em2.stop_acquisition.
FacadeNext == Worker \/ FacadeCaller

FacadeSpec == Init /\ [][FacadeNext]_vars

\* The worker is a thread of its own: the scheduler keeps running it, and
\* poll() returns within its timeout.
FairFacadeSpec == FacadeSpec /\ WF_vars(Worker)

\* The versions an instrument may report, with one to three components, on
\* both sides of every threshold of the quirk flags.
ReportedVersions ==
    FirmwareVersions \cup
        {<<1>>, <<1, 3, 4>>, <<1, 3, 5>>, <<1, 9, 9>>, <<2>>, <<2, 0>>,
         <<2, 0, 0>>, <<2, 0, 1>>, <<2, 1>>, <<2, 1, 0>>}

\* A session whose firmware version has been fetched (software_version has
\* been accessed), no quirk flag computed yet.
QuirkInit ==
    /\ InitReceiver
    /\ software_version \in {<<version>> : version \in ReportedVersions}
    /\ g_idn = "again"
    /\ zmq_streaming_supported = <<>>
    /\ read_index_bug = <<>>
    /\ long_acquisition_scaling_bug = <<>>
    /\ InitCtrl
    /\ InitCaller

\* The line protocol's read path: the receiver is never started.
QuirkNext ==
    \/ CallNbPointsReady \/ CallEm2Read
    \/ NprCheck \/ ErCheck \/ RsIndex \/ RsCommand \/ RsCorrect
    \/ Done

QuirkSpec == QuirkInit /\ [][QuirkNext]_vars

\* ---- the pool, calling the controller
\* The integration times the pool asks for, in units of 1e-5 s.
IntegrationTimes == {5, 10}

\* The pool sets the synchronization between two calls.
SetSynchronization ==
    /\ cpc = "idle"
    /\ \E synch \in AcqSynch :
          /\ synch # synchronization
          /\ synchronization' = synch
    /\ UNCHANGED <<recvVars, em2Vars, runVars, state, status, acq_time, ctlVars,
                   sessionGhosts, callGhosts, g_sent>>

CallPrepareOne ==
    /\ \E value \in IntegrationTimes, repetitions \in 1..MaxPoints,
          nb_starts \in {1} :
          Call("PrepareOne", [NoArgs EXCEPT !.value = value,
                                            !.repetitions = repetitions,
                                            !.nb_starts = nb_starts], "po_valid")
    /\ UNCHANGED loc

CallStartAll == Call("StartAll", NoArgs, "sta_begin") /\ UNCHANGED loc

CallStateAll == Call("StateAll", NoArgs, "stt_state") /\ UNCHANGED loc

CallReadAll ==
    /\ ReadAllCallable
    /\ Call("ReadAll", NoArgs, "ra_ready")
    /\ UNCHANGED loc

CallAbortOne == Call("AbortOne", NoArgs, "ab_check") /\ UNCHANGED loc

\* The steps of the Em2 methods the controller calls, as far as a session
\* without streaming takes them.
ScpiSteps ==
    \/ SaRequired \/ SaSupported \/ SaCommand
    \/ SoCommand \/ SoCheck
    \/ NprCheck
    \/ ErCheck \/ RsIndex \/ RsCommand

PrepareOne ==
    \/ PoValidate \/ PoRequired \/ PoSupported \/ CvState \/ CvReset
    \/ PoTime \/ PoTrigger \/ PoPoints \/ PoTimestamp

StartAll == StaBegin \/ StaStarted \/ StaTrigger

ReadAll == RaReady \/ RaRead \/ RaStore

\* The pool, calling one method of the controller at a time.
CtrlNext ==
    \/ SetSynchronization
    \/ CallPrepareOne \/ CallStartAll \/ CallStateAll \/ CallReadAll
    \/ CallAbortOne
    \/ PrepareOne \/ StartAll \/ SttState \/ ReadAll \/ AbCheck
    \/ ScpiSteps
    \/ Done

\* A session with an instrument whose firmware does not stream: its version
\* has been fetched and its quirk flags have been computed.
CtrlInit ==
    /\ InitReceiver
    /\ \E version \in {v \in FirmwareVersions : ~StreamingSupported(v)} :
          /\ software_version = <<version>>
          /\ zmq_streaming_supported = <<StreamingSupported(version)>>
          /\ read_index_bug = <<ReadIndexBug(version)>>
          /\ long_acquisition_scaling_bug = <<LongAcquisitionScalingBug(version)>>
    /\ g_idn = "again"
    /\ InitCtrl
    /\ InitCaller

\* The controller under every sequence of calls of the pool, the instrument
\* serving every call over the line protocol.
CtrlSpec == CtrlInit /\ [][CtrlNext]_vars

\* ---- ReadOne
\* The axes of the controller: the timer and the four channels.
MaxDevice == 5

KeyError == [NoResult EXCEPT !.status = "KeyError"]

IndexError == [NoResult EXCEPT !.status = "IndexError"]

\* axis -= 1; channel = 'CHAN0{0}'.format(axis): axis 1 is CHAN00, the
\* acquisition times ReadAll has added.
HasChannel(axis) == axis > 1 \/ new_data[1].CHAN00 # <<>>

\* values = list(self._new_data[channel])
ChannelValues(axis) ==
    IF axis = 1 THEN new_data[1].CHAN00[1] ELSE new_data[1].channels[axis - 1]

\* self._new_data[channel] = []
Emptied(axis) ==
    IF axis = 1
    THEN <<[new_data[1] EXCEPT !.CHAN00 = << <<>> >>]>>
    ELSE <<[new_data[1] EXCEPT !.channels[axis - 1] = <<>>]>>

\* The pool takes the value ReadOne returns, and goes on to the next axis.
Returned(value) ==
    /\ result' = [result EXCEPT !.values = Append(@, value)]
    /\ IF args.axis < MaxDevice
       THEN /\ args' = [args EXCEPT !.axis = @ + 1]
            /\ UNCHANGED cpc
       ELSE /\ cpc' = "done"
            /\ UNCHANGED args
    /\ UNCHANGED stack

\* ReadOne(axis): None or [] while no data are held; the first value of the
\* channel with software synchronization; with any other synchronization the
\* values of the channel, which it empties.
RoRead ==
    /\ cpc = "ro_read"
    /\ LET axis == args.axis
           software == synchronization \in {"SoftwareTrigger", "SoftwareGate"}
       IN  IF new_data = <<>>
           THEN /\ Returned(IF software THEN "None" ELSE <<>>)
                /\ UNCHANGED new_data
           ELSE IF ~HasChannel(axis)
           THEN /\ Raise(KeyError)
                /\ UNCHANGED <<new_data, args>>
           ELSE IF software
           THEN /\ IF ChannelValues(axis) = <<>>
                   THEN Raise(IndexError) /\ UNCHANGED args
                   ELSE Returned([value |-> ChannelValues(axis)[1]])
                /\ UNCHANGED new_data
           ELSE /\ new_data' = Emptied(axis)
                /\ Returned(ChannelValues(axis))
    /\ UNCHANGED <<recvVars, em2Vars, synchronization, use_sw_trigger, started,
                   aborted, nb_points_read_per_start,
                   nb_points_expected_per_start, nb_points_fetched, state,
                   status, acq_time, op, loc, sessionGhosts, callGhosts,
                   g_sent>>

\* The pool reads the values: ReadAll, then ReadOne of every axis, with no
\* other call of the controller in between.
CallReadValues ==
    /\ ReadAllCallable
    /\ Call("ReadValues", [NoArgs EXCEPT !.axis = 1], "rv_all")
    /\ UNCHANGED loc

RvReadAll ==
    /\ cpc = "rv_all"
    /\ cpc' = "ra_ready"
    /\ stack' = <<"ro_read">>
    /\ UNCHANGED <<recvVars, em2Vars, ctrlVars, op, args, loc, result,
                   sessionGhosts, callGhosts, g_sent>>

\* A run with hardware synchronization that has been configured for
\* MaxPoints points and started, on a firmware that does not stream.
ReadInit ==
    /\ InitReceiver
    /\ \E version \in {v \in FirmwareVersions : ~StreamingSupported(v)} :
          /\ software_version = <<version>>
          /\ zmq_streaming_supported = <<StreamingSupported(version)>>
          /\ read_index_bug = <<ReadIndexBug(version)>>
          /\ long_acquisition_scaling_bug = <<LongAcquisitionScalingBug(version)>>
    /\ g_idn = "again"
    /\ synchronization = "HardwareTrigger"
    /\ use_sw_trigger = FALSE
    /\ started = TRUE
    /\ aborted = FALSE
    /\ nb_points_read_per_start = 0
    /\ nb_points_expected_per_start = MaxPoints
    /\ nb_points_fetched = 0
    /\ new_data = <<>>
    /\ state = "On"
    /\ status = "On"
    /\ acq_time \in {<<value>> : value \in IntegrationTimes}
    /\ InitCaller

\* The pool polling the state and reading the values of the run.
ReadNext ==
    \/ CallStateAll \/ CallReadValues
    \/ SttState
    \/ RvReadAll \/ ReadAll \/ RoRead
    \/ NprCheck \/ ErCheck \/ RsIndex \/ RsCommand
    \/ Done

ReadSpec == ReadInit /\ [][ReadNext]_vars

\* The pool configuring, again and again, under every synchronization.
PrepareNext ==
    \/ SetSynchronization
    \/ CallPrepareOne
    \/ PrepareOne
    \/ SoCommand \/ SoCheck
    \/ Done

PrepareSpec == Init /\ [][PrepareNext]_vars

\* A session from the making of Em2 on: the pool configures and reads over
\* the line protocol, which accesses the three flags in every order.
VersionInit ==
    InitReceiver /\ InitEm2 /\ g_idn = "none" /\ InitCtrl /\ InitCaller

VersionNext ==
    \/ PrepareNext
    \/ CallEm2Read
    \/ ErCheck \/ RsIndex \/ RsCommand

VersionSpec == VersionInit /\ [][VersionNext]_vars

\* A caller of the facade's nb_points_ready and read, who starts and stops
\* the receiver of an instrument that streams its frames in order.
OrderedWorker ==
    WorkerConnect \/ WorkerLoop \/ WorkerPollTimeout \/ WorkerReceiveOrdered

DispatchNext ==
    \/ OrderedWorker
    \/ CallStart \/ CallStop \/ CallNbPointsReady \/ CallEm2Read
    \/ StartStop
    \/ NprCheck \/ NbPointsCheck \/ NbPointsCount
    \/ ErCheck \/ ReadTotal \/ ReadGet
    \/ RsIndex \/ RsCommand
    \/ Done

DispatchSpec == Init /\ [][DispatchNext]_vars

\* A session with an instrument whose firmware streams: its version has been
\* fetched and its quirk flags have been computed.
StreamInit ==
    /\ InitReceiver
    /\ \E version \in {v \in FirmwareVersions : StreamingSupported(v)} :
          /\ software_version = <<version>>
          /\ zmq_streaming_supported = <<StreamingSupported(version)>>
          /\ read_index_bug = <<ReadIndexBug(version)>>
          /\ long_acquisition_scaling_bug = <<LongAcquisitionScalingBug(version)>>
    /\ g_idn = "again"
    /\ InitCtrl
    /\ InitCaller

\* The pool configuring, starting and aborting runs, in whatever acquisition
\* mode the instrument is found in, the instrument streaming its frames in
\* order while the receiver listens.
StreamNext ==
    \/ OrderedWorker
    \/ CallPrepareOne \/ CallStartAll \/ CallAbortOne
    \/ PrepareOne \/ StartAll \/ AbCheck
    \/ SaRequired \/ SaSupported \/ SaCommand
    \/ SoCommand \/ SoCheck
    \/ StartStop
    \/ Done

StreamSpec == StreamInit /\ [][StreamNext]_vars


\* ================================================================ claims
Range(f) == {f[i] : i \in DOMAIN f}

ReadDone == cpc = "done" /\ op = "read"

ReadOk == ReadDone /\ result.status = "ok"

ReadRaised(text) ==
    ReadDone /\ result.status = "RuntimeError" /\ result.error = text

\* The frame numbers of the messages a read dequeued.
GotFrames == [i \in 1..Len(loc.got) |-> loc.got[i].frame_number]

\* The n consecutive integers that end just below e.
RunBelow(e, n) == [i \in 1..n |-> e - n + i - 1]

\* What read returns for the n messages that arrived after the first
\* `front` ones, in arrival order.
ArrivedData(front, n) ==
    [channel \in Channels |->
        [i \in 1..n |-> (front + i) * (CHANNEL_MAX + 1) + channel]]

\* The number of messages read(start, n) is asked for, n omitted meaning
\* everything available when the counters were read.
Asked ==
    IF args.nb_points = <<>> THEN loc.total_count - loc.front_position
    ELSE args.nb_points[1]

BadRequest ==
    \/ args.start_position # loc.front_position
    \/ /\ args.nb_points # <<>>
       /\ args.nb_points[1] > loc.total_count - loc.front_position

\* ---- C1
\* C1: in every reachable state of the ingestion queue, under every
\* interleaving of the worker's puts with the reader's gets,
\* front_position <= total_count.
C1_FrontAtMostTotal == messages.front_position <= messages.total_count

C1_Witness ==
    /\ messages.front_position >= 2
    /\ messages.total_count > messages.front_position

\* ---- C2
\* C2 as stated: read(start, n) raises whenever start # front_position or
\* n > total_count - front_position, and otherwise returns exactly n
\* messages' worth of samples in arrival order.
C2_Original ==
    ReadDone =>
        IF BadRequest
        THEN result.status = "RuntimeError"
        ELSE /\ result.status = "ok"
             /\ result.data = ArrivedData(loc.front_position, Asked)

\* C2 as amended: read(start, n) raises whenever start # front_position
\* (position error) or n > total_count - front_position (count error);
\* otherwise it either returns exactly n messages' worth of samples in arrival
\* order, or raises the dropped-frame error because a message it dequeued did
\* not carry the expected frame number.
C2_ReadRaisesOrReturnsAsked ==
    ReadDone =>
        IF BadRequest
        THEN /\ result.status = "RuntimeError"
             /\ result.error =
                    IF args.start_position # loc.front_position
                    THEN POSITION_ERROR ELSE COUNT_ERROR
        ELSE \/ /\ result.status = "ok"
                /\ result.data = ArrivedData(loc.front_position, Asked)
             \/ /\ ReadRaised(DROPPED_ERROR)
                /\ loc.got # <<>>
                /\ Len(loc.got) <= Asked
                /\ loc.got[Len(loc.got)].frame_number # expected_frame_number

C2_Witness ==
    /\ ReadOk
    /\ args.start_position = 1
    /\ args.nb_points = <<2>>

\* ---- C3
\* C3 as stated: a frame number that is not the expected one raises, so the
\* frame numbers of the messages successful reads have returned in a session
\* are exactly 0, 1, 2, ...: each successful read returns the run that
\* continues where the messages returned before it ended.
C3_Original ==
    /\ ReadRaised(DROPPED_ERROR) =>
          loc.got[Len(loc.got)].frame_number # expected_frame_number
    /\ ReadOk => GotFrames = RunBelow(g_delivered, Len(loc.got))

\* C3 as amended: a frame number that is not the expected one raises, so the
\* frame numbers of the messages accepted in a session are exactly 0, 1, 2, ...;
\* a successful read returns the run of accepted frame numbers that ends at the
\* last accepted one, a read that raises discards the messages it had accepted,
\* and the frames returned are exactly 0, 1, 2, ... as long as no read of the
\* session has raised a data-loss error.
C3_AcceptedFramesSequential ==
    /\ ReadOk => GotFrames = RunBelow(expected_frame_number, Len(loc.got))
    /\ ReadRaised(DROPPED_ERROR) =>
          /\ loc.got # <<>>
          /\ SubSeq(GotFrames, 1, Len(loc.got) - 1)
                = RunBelow(expected_frame_number, Len(loc.got) - 1)
          /\ loc.got[Len(loc.got)].frame_number # expected_frame_number
    /\ cpc = "rd_get" => GotFrames = RunBelow(expected_frame_number, Len(loc.got))
    /\ g_delivered <= expected_frame_number
    /\ (~g_lossRaised /\ cpc # "rd_get") => g_delivered = expected_frame_number

C3_Witness ==
    /\ ReadOk
    /\ loc.got # <<>>
    /\ g_delivered < expected_frame_number

\* ---- C4
\* C4 as stated: once a read has raised a data-loss error, no later read of the
\* session returns data.
C4_Original == (ReadOk /\ loc.got # <<>>) => ~g_lossRaised

\* C4 as amended: the receiver does not latch a data-loss error. A position or
\* count error leaves the receiver as it was, so a later read from the front
\* position with an available count still returns data. A dropped-frame error
\* leaves the mismatching message dequeued and the expected frame number
\* unchanged; front_position never decreases within a session, so a repeat of
\* the failed read (same start position) raises until the receiver is stopped
\* and started again.
C4_DataLossNotLatched ==
    /\ [][(cpc = "rd_total" /\ cpc' = "done" /\ result'.status = "RuntimeError")
            => UNCHANGED recvVars]_vars
    /\ [][(cpc = "rd_get" /\ cpc' = "done" /\ result'.status = "RuntimeError")
            => /\ messages'.front_position = messages.front_position + 1
               /\ messages'.front_position > args.start_position
               /\ UNCHANGED expected_frame_number]_vars
    /\ [][cpc # "st_reset"
            => messages'.front_position >= messages.front_position]_vars
    /\ [][(cpc = "rd_total" /\ cpc' # "rd_total"
              /\ args.start_position < messages.front_position)
            => (cpc' = "done" /\ result'.error = POSITION_ERROR)]_vars

C4_Witness ==
    /\ ReadRaised(POSITION_ERROR)
    /\ g_delivered < messages.front_position
    /\ args.start_position < messages.front_position

\* ---- C5
\* The queue holds, in arrival order, exactly the data messages received and
\* not yet dequeued: the k-th message received is dequeued k-th.
QueueInArrivalOrder ==
    /\ messages.total_count = g_arrivals
    /\ Len(messages.queue) = messages.total_count - messages.front_position
    /\ \A i \in 1..Len(messages.queue) :
          messages.queue[i].id = messages.front_position + i

\* C5 as stated: every data message received is enqueued exactly once and
\* delivered by read exactly once, in arrival order: whenever no read is in
\* progress, every message dequeued so far has been delivered.
C5_Original ==
    /\ QueueInArrivalOrder
    /\ cpc # "rd_get" => g_delivered = messages.front_position

\* C5 as amended: every data message received is enqueued exactly once and
\* dequeued by read at most once, in arrival order, under every interleaving
\* (none is dropped because the reader is slow); a read that returns delivers
\* exactly the messages it dequeued, and a read that raises the dropped-frame
\* error discards the messages it dequeued, so a dequeued message is delivered
\* once or, after a data-loss error, not at all.
C5_EnqueuedOnceDequeuedInOrder ==
    /\ QueueInArrivalOrder
    /\ (cpc = "rd_get" \/ ReadDone) =>
          /\ \A i \in 1..Len(loc.got) : loc.got[i].id = loc.front_position + i
          /\ messages.front_position = loc.front_position + Len(loc.got)
    /\ ReadOk => result.data = ArrivedData(loc.front_position, Len(loc.got))
    /\ g_delivered <= messages.front_position
    /\ (~g_lossRaised /\ cpc # "rd_get") => g_delivered = messages.front_position

C5_Witness ==
    /\ Len(messages.queue) >= 2
    /\ g_delivered >= 1
    /\ cpc = "rd_get"


\* ---- C6
\* C6: start(), whatever state it finds (running or not, an error recorded or
\* not, the queue partly read), has the old loop ended and the running flag
\* down before it resets, and has expected frame number 0, no error and a fresh
\* queue (total_count = front_position = 0) when it starts the new loop's
\* thread: nothing of the earlier session's frame accounting is left.
C6_StartResetsBeforeNewLoop ==
    /\ cpc = "st_reset" => (wpc = "dead" /\ ~running)
    /\ cpc = "st_thread" =>
          /\ wpc = "dead"
          /\ running
          /\ messages = NewCountableQueue
          /\ expected_frame_number = 0
          /\ last_worker_error = ""
    /\ (wpc = "init" /\ cpc \notin {"rd_get", "rd_total"}) =>
          /\ messages.front_position = 0
          /\ expected_frame_number = 0

C6_Witness ==
    /\ cpc = "st_thread"
    /\ g_prior.running
    /\ g_prior.dirty

\* ---- C7
\* C7: once stop() has lowered the running flag of a running receiver, the
\* worker loop eventually ends (the worker being scheduled fairly); stop()
\* returns only after the loop has ended; and stop() on a receiver that is not
\* running changes nothing.
C7_StopEndsLoop ==
    /\ (cpc = "sp_join") ~> (wpc = "dead")
    /\ [][(cpc = "sp_join" /\ cpc' # "sp_join") => wpc = "dead"]_vars
    /\ []((cpc = "done" /\ op = "stop") => (wpc = "dead" /\ ~running))
    /\ [][(cpc = "sp_check" /\ ~running)
            => UNCHANGED <<recvVars, em2Vars, sessionGhosts>>]_vars

C7_Witness ==
    /\ cpc = "done"
    /\ op = "stop"
    /\ g_prior.running
    /\ wpc = "dead"

\* ---- C8
\* C8: an access to nb_points_received made when the worker has recorded an
\* error in the current session raises that error, and an access made when it
\* has recorded none returns total_count.
C8_ErrorRaisedOnAccess ==
    /\ [][(cpc = "np_check" /\ cpc' # "np_check") =>
            IF g_errAt # <<>>
            THEN /\ cpc' = "done"
                 /\ result'.status = "RuntimeError"
                 /\ result'.error = last_worker_error
                 /\ last_worker_error \in {JSON_ERROR, GENERAL_ERROR}
            ELSE cpc' = "np_count"]_vars
    /\ [][(cpc = "np_count" /\ cpc' # "np_count") =>
            /\ cpc' = "done"
            /\ result'.status = "ok"
            /\ result'.count = messages.total_count]_vars

C8_Witness ==
    /\ cpc = "done"
    /\ op = "nb_points_received"
    /\ result.status = "RuntimeError"
    /\ result.error = GENERAL_ERROR
    /\ messages.total_count > 0

\* ---- C9
\* C9: recording an error does not end the worker loop (the worker goes back to
\* the loop test with the running flag as it was); a data message received
\* after an error has been recorded is still enqueued; and the next
\* nb_points_received raises the recorded error.
C9_MalformedPayloadKeepsLoop ==
    /\ [][(last_worker_error' # last_worker_error /\ last_worker_error' # "")
            => (wpc' = "loop" /\ UNCHANGED <<running, messages>>)]_vars
    /\ [][(g_errAt # <<>> /\ g_arrivals' = g_arrivals + 1) =>
            /\ messages'.total_count = messages.total_count + 1
            /\ messages'.queue # <<>>
            /\ messages'.queue[Len(messages'.queue)].id = g_arrivals'
            /\ wpc' = "loop"]_vars
    /\ [][(g_errAt # <<>> /\ cpc = "np_check" /\ cpc' # "np_check")
            => result'.error = last_worker_error]_vars

C9_Witness ==
    /\ g_errAt # <<>>
    /\ last_worker_error = JSON_ERROR
    /\ messages.total_count > g_errAt[1]
    /\ running
    /\ wpc = "poll"

\* ---- C10
\* The firmware versions of FirmwareVersions that stream (2.2 and later).
StreamingVersions == {<<2, 2>>, <<3>>}

\* Whether start_acquisition found streaming required and supported.
StreamingWanted ==
    /\ loc.mode \in {"FAST_BUFFER", "fast_buffer"}
    /\ software_version # <<>>
    /\ software_version[1] \in StreamingVersions

\* C10: when start_acquisition sends the device start command, the receiver has
\* been started by this call (reset, running, its thread alive) if the
\* acquisition mode requires streaming and the firmware supports it; otherwise
\* this call has not started the receiver and has left it as it found it.
C10_ReceiverStartedBeforeCommand ==
    [][(cpc = "sa_command" /\ cpc' = "done") =>
        IF StreamingWanted
        THEN /\ g_startedRecv
             /\ running
             /\ wpc # "dead"
             /\ messages.front_position = 0
             /\ expected_frame_number = 0
        ELSE /\ ~g_startedRecv
             /\ running = g_prior.running]_vars

C10_Witness ==
    /\ cpc = "done"
    /\ op = "start_acquisition"
    /\ result.status = "ok"
    /\ g_startedRecv
    /\ g_prior.running

\* ---- C11
NbPointsReadyDone == cpc = "done" /\ op = "Em2.nb_points_ready"

EmReadDone == cpc = "done" /\ op = "Em2.read"

C11_Served ==
    /\ NbPointsReadyDone =>
          IF g_prior.running
          THEN /\ g_sent = <<>>
               /\ result.status \in {"ok", "RuntimeError"}
               /\ result.status = "ok" => result.count \in 0..messages.total_count
               /\ result.status = "RuntimeError" =>
                     result.error = last_worker_error
          ELSE /\ g_sent = <<"ACQU:NDAT?">>
               /\ result.status \in {"ok", "Em2Error"}
    /\ EmReadDone =>
          IF g_prior.running
          THEN /\ g_sent = <<>>
               /\ result.status \in {"ok", "RuntimeError"}
               /\ result.status = "ok" =>
                     /\ result.data = ArrivedData(loc.front_position, Len(loc.got))
                     /\ messages.front_position
                            = loc.front_position + Len(loc.got)
          ELSE /\ g_sent # <<>>
               /\ Range(g_sent) \subseteq {"*idn?", "ACQU:MEAS?"}
               /\ result.status \in {"ok", "Em2Error"}
               /\ result.status = "ok" =>
                     /\ g_sent[Len(g_sent)] = "ACQU:MEAS?"
                     /\ result.data \in MeasReplies(args.start_position,
                                                    args.nb_points)
               /\ loc.got = <<>>

\* C11: a call of nb_points_ready or of read on Em2 made while the receiver is
\* running is served by the receiver (no command is sent; the count is a
\* count of the queue, the data are those of the messages dequeued, the errors
\* are the receiver's), and a call made while it is not running is served by
\* the line protocol (ACQU:NDAT?, ACQU:MEAS?; the data are the reply's, the
\* only error is the protocol's, the queue is not touched).
C11_ServedByActiveSource ==
    /\ []C11_Served
    /\ [][(cpc \in {"rs_index", "rs_command"} \/ (cpc = "npr_check" /\ ~running))
            => UNCHANGED recvVars]_vars

C11_Witness ==
    /\ EmReadDone
    /\ g_prior.running
    /\ result.status = "ok"
    /\ loc.front_position = 1
    /\ Len(loc.got) = 1

\* ---- C12
\* A version with its missing components counted as 0.
Padded(version) == [i \in 1..3 |-> IF i <= Len(version) THEN version[i] ELSE 0]

\* a <= b for (major, minor, patch) triples, lexicographically.
TripleLeq(a, b) ==
    \/ a[1] < b[1]
    \/ a[1] = b[1] /\ a[2] < b[2]
    \/ a[1] = b[1] /\ a[2] = b[2] /\ a[3] <= b[3]

\* C12 as stated: for every version the instrument reports, with one to three
\* components, read_index_bug is (version <= 2.0.0) on the padded triples; it
\* is true for an instrument reporting 2.0.0.
C12_Original ==
    read_index_bug # <<>> =>
        read_index_bug[1] = TripleLeq(Padded(software_version[1]), <<2, 0, 0>>)

\* ---- C13
\* floor(acquisition_time / overflow_period), overflow_period being
\* 8192 / (200000 / 64) s = 2.62144 s, the time given in milliseconds.
OverflowCount(time_ms) == (time_ms * 100) \div 262144

\* The smallest power of two strictly greater than n.
PowerOfTwoAbove(n) ==
    CHOOSE p \in {2 ^ k : k \in 0..8} : p > n /\ p \div 2 <= n

Scaled(data, factor) ==
    [channel \in Channels |->
        [i \in 1..Len(data[channel]) |-> data[channel][i] * factor]]

\* C13: when the long-acquisition correction is applied to a reply, every
\* sample of every channel is multiplied by 2^bit_length(overflow_count), the
\* smallest power of two above overflow_count, when
\* overflow_count = floor(acquisition_time / 2.62144 s) > 0 (factor 4 at 6.0 s),
\* and the reply is returned unchanged when overflow_count = 0 (as at 1.0 s).
C13_ScaleCorrection ==
    (EmReadDone /\ result.status = "ok" /\ "ACQU:TIME?" \in Range(g_sent)) =>
        /\ result.data =
              IF OverflowCount(loc.acquisition_time) > 0
              THEN Scaled(loc.data,
                          PowerOfTwoAbove(OverflowCount(loc.acquisition_time)))
              ELSE loc.data
        /\ loc.acquisition_time = 6000 => result.data = Scaled(loc.data, 4)
        /\ loc.acquisition_time = 1000 => result.data = loc.data

C13_Witness ==
    /\ EmReadDone
    /\ result.status = "ok"
    /\ loc.acquisition_time = 6000
    /\ Len(loc.data[CHANNEL_MAX]) = 2
    /\ result.data[CHANNEL_MAX][2] = 4 * loc.data[CHANNEL_MAX][2]



\* ---- C14
PollRaised == cpc' = "done" /\ result'.status = "Em2Error"

KnownHealthyStates == {"ACQUIRING", "RUNNING", "ON"}

Derived(hardware_state) ==
    IF hardware_state \notin KnownHealthyStates
    THEN "Fault"
    ELSE IF \/ nb_points_read_per_start = nb_points_expected_per_start
            \/ aborted
            \/ ~started
    THEN "On"
    ELSE "Moving"

\* C14: the state is On before any poll, only polls change it, and a poll that
\* gets the hardware state sets it to Fault when the hardware state is FAULT or
\* unknown, else to On when the points read equal the points expected or the
\* run is aborted or not started, else to Moving.
C14_PollDerivesState ==
    /\ state = "On"
    /\ [][state' # state => cpc = "stt_state"]_vars
    /\ [][cpc = "stt_state" /\ ~PollRaised
            => state' = Derived(loc'.hardware_state)]_vars

C14_Witness ==
    /\ cpc = "done"
    /\ op = "StateAll"
    /\ result.status = "ok"
    /\ loc.hardware_state = "RUNNING"
    /\ state = "Moving"
    /\ nb_points_read_per_start = 1
    /\ nb_points_expected_per_start = 2

\* ---- C15
PollReturned == cpc = "done" /\ op = "StateAll" /\ result.status = "ok"

\* The statement as written: once a configured run is marked aborted, every
\* poll that returns finds the state On.
C15_Original == PollReturned /\ aborted /\ acq_time # <<>> => state = "On"

\* C15: abort marks the run aborted, the mark stays until a configure resets
\* the run, and a poll of an aborted run that gets a hardware state other than
\* FAULT or an unknown one sets the state to On, whatever the counters are.
C15_AbortedPollsIdle ==
    /\ [][cpc = "ab_check" => aborted']_vars
    /\ [][aborted /\ ~aborted' => cpc = "cv_reset"]_vars
    /\ [][/\ cpc = "stt_state"
          /\ aborted
          /\ ~PollRaised
          /\ loc'.hardware_state \in KnownHealthyStates
          => state' = "On" /\ cpc' = "done"]_vars

C15_Witness ==
    /\ PollReturned
    /\ aborted
    /\ started
    /\ nb_points_read_per_start < nb_points_expected_per_start
    /\ loc.hardware_state = "ON"
    /\ state = "On"

\* ---- C16
AbortReturned == cpc = "done" /\ op = "AbortOne"

\* C16: a configure that resets the run clears the aborted mark; an abort of
\* a run not yet aborted marks it and sends the stop command, once; an abort
\* of a run already aborted returns at once, sends no command and changes no
\* state of the controller, of the facade or of the receiver.
C16_AbortIdempotent ==
    /\ [][cpc = "cv_reset" => ~aborted']_vars
    /\ [][cpc = "ab_check" /\ ~aborted
            => aborted' /\ cpc' = "so_command" /\ g_sent' = <<>>]_vars
    /\ [][cpc = "so_command" /\ op = "AbortOne"
            => g_sent' = <<"ACQU:STOP True">>]_vars
    /\ [][cpc = "ab_check" /\ aborted
            => /\ cpc' = "done"
               /\ result'.status = "ok"
               /\ UNCHANGED <<recvVars, em2Vars, ctrlVars, g_sent>>]_vars
    /\ [](AbortReturned => aborted /\ g_sent \in {<<>>, <<"ACQU:STOP True">>})

C16_Witness ==
    /\ AbortReturned
    /\ result.status = "ok"
    /\ g_sent = <<>>
    /\ aborted
    /\ started
    /\ nb_points_read_per_start < nb_points_expected_per_start

\* ---- C17
\* A started run with outstanding points, not aborted.
Busy ==
    /\ started
    /\ ~aborted
    /\ nb_points_read_per_start # nb_points_expected_per_start

InPrepareOne == op = "PrepareOne" /\ cpc \notin {"idle", "done"}

StopSent == \E i \in 1..Len(g_sent) : g_sent[i] = "ACQU:STOP True"

\* The statement as written: no step of a configure of a Busy run changes the
\* run or stops the acquisition, and the configure does not end well.
C17_Original ==
    [][InPrepareOne /\ Busy
         => /\ UNCHANGED runVars
            /\ cpc' # "so_command"
            /\ cpc' = "done" => result'.status # "ok"]_vars

\* C17: a configure is refused by its validation only, whatever the state of
\* the run: the refusal changes nothing of the run and has stopped nothing;
\* a configure that passes validation and gets the hardware state resets the
\* run (after the stop of the acquisition the instrument reports in progress),
\* Busy or not.
C17_ConfigureResetsRun ==
    /\ [][InPrepareOne /\ cpc' = "done" /\ result'.status = "ValueError"
            => /\ cpc \in {"po_valid", "po_supported"}
               /\ UNCHANGED runVars
               /\ ~StopSent']_vars
    /\ [][InPrepareOne /\ cpc # "cv_reset" => UNCHANGED runVars]_vars
    /\ [][cpc = "cv_reset"
            => /\ ~started'
               /\ ~aborted'
               /\ nb_points_read_per_start' = 0
               /\ nb_points_fetched' = 0
               /\ nb_points_expected_per_start' = args.repetitions
               /\ new_data' = <<>>
               /\ cpc' = "po_time"]_vars

C17_Witness ==
    /\ cpc = "cv_reset"
    /\ Busy
    /\ state = "Moving"
    /\ StopSent
    /\ nb_points_read_per_start = 1
    /\ nb_points_expected_per_start = 2

\* ---- C18
PrepareReturned == cpc = "done" /\ op = "PrepareOne"

ConfigurationError == PrepareReturned /\ result.status = "ValueError"

\* The queries PrepareOne needs to know whether streaming is required and
\* supported.
StreamingQueries == {<<"ACQU:MODE?">>, <<"ACQU:MODE?", "*idn?">>}

\* The commands that change the instrument.
Changing ==
    {"ACQU:STOP True", "ACQU:TIME", "TRIG:MODE", "ACQU:NTRIG", "TMST False"}

\* The statement as written: a configure that raises a configuration error has
\* sent nothing.
C18_Original == ConfigurationError => g_sent = <<>>

\* C18: the errors of the integration time and of the Start synchronization
\* are raised before anything is sent; the two errors of the streaming mode
\* are raised after the queries of the mode (and of the version, when it is
\* not cached) and before any command that changes the instrument; a configure
\* that has sent such a command had a valid time and synchronization.
C18_ErrorsBeforeSettings ==
    /\ ConfigurationError =>
          /\ result.error \in {MIN_TIME_ERROR, START_ERROR, UNSUPPORTED_ERROR,
                               GATE_ERROR}
          /\ result.error \in {MIN_TIME_ERROR, START_ERROR} => g_sent = <<>>
          /\ result.error \in {UNSUPPORTED_ERROR, GATE_ERROR} =>
                g_sent \in StreamingQueries
    /\ op = "PrepareOne" /\ Range(g_sent) \cap Changing # {} =>
          /\ args.value >= MinIntegrationTime
          /\ synchronization \notin {"SoftwareStart", "HardwareStart"}
          /\ ~(loc.required /\ synchronization = "HardwareGate")
          /\ loc.required => zmq_streaming_supported = <<TRUE>>

C18_Witness ==
    /\ ConfigurationError
    /\ result.error = GATE_ERROR
    /\ g_sent = <<"ACQU:MODE?", "*idn?">>

\* ---- C19
GateKinds == {"SoftwareGate", "HardwareGate"}

StartKinds == {"SoftwareStart", "HardwareStart"}

\* The statement as written: a configure with a time below the minimum, with
\* a Start synchronization, or with the fast buffer mode and a gate
\* synchronization does not end well.
C19_Original ==
    PrepareReturned
    /\ \/ args.value < MinIntegrationTime
       \/ synchronization \in StartKinds
       \/ loc.required /\ synchronization \in GateKinds
    => result.status # "ok"

\* C19: a time below the minimum raises the error of the minimum time, and
\* only such a time does; otherwise a Start synchronization raises its error;
\* otherwise the fast buffer mode with the HardwareGate synchronization raises
\* one of the two errors of the streaming mode (unless the version query
\* fails), and the error of the gate is raised for HardwareGate only.
C19_ConfigureValidation ==
    PrepareReturned =>
       /\ args.value < MinIntegrationTime
             <=> result = ValueError(MIN_TIME_ERROR)
       /\ args.value >= MinIntegrationTime /\ synchronization \in StartKinds
             => result = ValueError(START_ERROR)
       /\ /\ args.value >= MinIntegrationTime
          /\ loc.required
          /\ synchronization = "HardwareGate"
          => result \in {ValueError(UNSUPPORTED_ERROR), ValueError(GATE_ERROR),
                         Em2Error}
       /\ result = ValueError(GATE_ERROR)
             => loc.required /\ synchronization = "HardwareGate"

\* The fast buffer mode with the SoftwareGate synchronization and a time of
\* exactly the minimum, configured.
C19_Witness ==
    /\ PrepareReturned
    /\ result.status = "ok"
    /\ args.value = MinIntegrationTime
    /\ loc.required
    /\ synchronization = "SoftwareGate"

\* ---- C20
\* C20: the counter of the points read in this start never exceeds the points
\* expected in this start, and only a start or the reset of a configure
\* lowers it.
C20_Original ==
    /\ [](nb_points_read_per_start <= nb_points_expected_per_start)
    /\ [][cpc \notin {"sta_begin", "cv_reset"}
            => nb_points_read_per_start' >= nb_points_read_per_start]_vars

\* ---- C21
\* The statement as written: the version query is never sent a second time.
C21_Original == g_idn # "again"

Flags == <<zmq_streaming_supported, read_index_bug, long_acquisition_scaling_bug>>

\* C21: once a version query has been answered the version is cached, no
\* version query is sent again and the version does not change; a flag that
\* has been computed keeps its value, and it was computed from the version
\* cached; a query is sent again only while none has been answered.
C21_VersionQueriedUntilKnown ==
    /\ [][software_version # <<>> => UNCHANGED <<software_version, g_idn>>]_vars
    /\ [][g_idn' # g_idn
            => \/ software_version' # <<>>
               \/ cpc' = "done" /\ result'.status = "Em2Error"]_vars
    /\ [][/\ zmq_streaming_supported # <<>>
             => zmq_streaming_supported' = zmq_streaming_supported
          /\ read_index_bug # <<>> => read_index_bug' = read_index_bug
          /\ long_acquisition_scaling_bug # <<>>
             => long_acquisition_scaling_bug' = long_acquisition_scaling_bug]_vars
    /\ []((\E i \in 1..3 : Flags[i] # <<>>) => software_version # <<>>)

\* The three flags computed, in a session whose first version query failed.
C21_Witness ==
    /\ g_idn = "again"
    /\ software_version # <<>>
    /\ \A i \in 1..3 : Flags[i] # <<>>

\* ---- C22
\* A ReadAll, called by the pool or forced by StateAll, has ended.
ReadAllEnded == cpc = "done" /\ op \in {"ReadAll", "StateAll"}

\* The points from `first` on, n of them, stamped with the acquisition time.
Stamped(first, n) ==
    <<[channels |-> ScpiData(first, n),
       CHAN00 |-> <<[i \in 1..n |-> acq_time[1]]>>]>>

\* What ReadAll leaves when it has advanced the counter of the points read by
\* loc.data_len: that many points fetched, from the number fetched before up
\* to the points ready, and stamped.
Fetched ==
    /\ nb_points_fetched = loc.nb_points_ready
    /\ acq_time # <<>>
    /\ new_data = Stamped(loc.nb_points_ready - loc.data_len, loc.data_len)

\* C22: ReadAll advances the counter of the points read by the number of the
\* points ready beyond those fetched, and asks the facade for exactly those;
\* when there are none it returns at once, sends no read and changes nothing;
\* a ReadAll that returns after a read has fetched exactly those points and
\* stamped each with the acquisition time.
C22_ReadAllFetchesNewPoints ==
    /\ [][cpc = "ra_read"
            => IF result.count > nb_points_fetched
               THEN /\ loc'.data_len = result.count - nb_points_fetched
                    /\ nb_points_read_per_start'
                          = nb_points_read_per_start + loc'.data_len
                    /\ args'.start_position = nb_points_fetched
                    /\ args'.nb_points = <<loc'.data_len>>
               ELSE /\ cpc' = "done"
                    /\ result'.status = "ok"
                    /\ UNCHANGED <<ctrlVars, g_sent>>]_vars
    /\ [](ReadAllEnded /\ result.status = "ok" /\ loc.data_len > 0 => Fetched)
    /\ [](ReadAllEnded /\ op = "ReadAll" /\ loc.data_len = 0
            => g_sent = <<"ACQU:NDAT?">>)

\* A second ReadAll of a run, which has fetched the one point that was new.
C22_Witness ==
    /\ ReadAllEnded
    /\ op = "ReadAll"
    /\ result.status = "ok"
    /\ loc.data_len = 1
    /\ nb_points_fetched = 2
    /\ nb_points_read_per_start = 2

\* ---- C23
PollEnded == cpc = "done" /\ op = "StateAll"

\* C23: a poll goes on into ReadAll exactly when it has got the hardware state
\* ON and has derived Moving; the state stays Moving whatever that ReadAll
\* does; a poll that does not go on into ReadAll sends ACQU:STAT? and nothing
\* else.
C23_PollReadsWhenBusyAndOn ==
    /\ [][cpc = "stt_state"
            => (cpc' = "ra_ready"
                  <=> /\ ~PollRaised
                      /\ loc'.hardware_state = "ON"
                      /\ Derived("ON") = "Moving")]_vars
    /\ [][cpc = "stt_state" /\ cpc' = "ra_ready" => state' = "Moving"]_vars
    /\ [][op = "StateAll" /\ cpc \notin {"stt_state", "done"}
            => state' = "Moving" /\ state = "Moving"]_vars
    /\ [](PollEnded =>
            IF loc.hardware_state = "ON" /\ state = "Moving"
            THEN /\ Len(g_sent) >= 2
                 /\ g_sent[1] = "ACQU:STAT?"
                 /\ g_sent[2] = "ACQU:NDAT?"
            ELSE g_sent = <<"ACQU:STAT?">>)

\* A poll that has read the points outstanding and has left the state Moving.
C23_Witness ==
    /\ PollEnded
    /\ result.status = "ok"
    /\ state = "Moving"
    /\ loc.hardware_state = "ON"
    /\ g_sent = <<"ACQU:STAT?", "ACQU:NDAT?", "ACQU:MEAS?">>
    /\ nb_points_read_per_start = nb_points_expected_per_start

\* ---- C24
InStartAll == op = "StartAll" /\ cpc \notin {"idle", "done"}

Last(seq) == seq[Len(seq)]

SendsNext(cmd) == g_sent' = Append(g_sent, cmd)

\* C24: StartAll sends the start command, without trigger, only in a run not
\* yet started; a start command that is accepted marks the run started, and
\* only the reset of a configure takes the mark away; StartAll sends the
\* software trigger exactly when the run is software triggered, and only in a
\* run marked started; nothing else sends a start command or a trigger.
C24_ArmOnceTriggerEveryStart ==
    /\ [][cpc = "sta_begin" => (cpc' = "sa_required" <=> ~started)]_vars
    /\ [][InStartAll /\ cpc = "sa_command"
            => /\ ~started
               /\ SendsNext("ACQU:START")
               /\ cpc' \in {"sta_started", "done"}
               /\ cpc' = "done" => result'.status = "Em2Error"]_vars
    /\ [][cpc = "sta_started" => started' /\ cpc' = "sta_trigger"]_vars
    /\ [][started /\ ~started' => cpc = "cv_reset"]_vars
    /\ [][cpc = "sta_trigger"
            => /\ started
               /\ cpc' = "done"
               /\ IF use_sw_trigger
                  THEN SendsNext("TRIG:SWSE True")
                  ELSE UNCHANGED g_sent]_vars
    /\ [][/\ g_sent' # g_sent
          /\ g_sent' # <<>>
          /\ Last(g_sent') \in {"ACQU:START", "ACQU:START SWTRIG", "TRIG:SWSE True"}
          => InStartAll /\ Last(g_sent') # "ACQU:START SWTRIG"]_vars

\* A second start of a software-triggered run: the trigger and nothing else.
C24_Witness ==
    /\ cpc = "done"
    /\ op = "StartAll"
    /\ result.status = "ok"
    /\ started
    /\ use_sw_trigger
    /\ g_sent = <<"TRIG:SWSE True">>
    /\ nb_points_fetched = 1

\* ---- C25
\* A StartAll of a configured run has armed the instrument, found in a mode
\* other than the fast buffer mode.
StartedWithoutStreaming ==
    /\ cpc = "done"
    /\ op = "StartAll"
    /\ result.status = "ok"
    /\ acq_time # <<>>
    /\ started
    /\ loc.mode = "CURRENT"

\* C25: once a configured run has been started in a mode other than the fast
\* buffer mode, the receiver is not running (so that nb_points_ready and read
\* go to the line protocol).
C25_Original == StartedWithoutStreaming => ~ReadViaReceiver

\* ---- C26
\* A ReadAll has ended with the error of the facade's read (the count of the
\* points ready had been obtained, and was above the points fetched).
ReadRaisedInReadAll ==
    /\ ReadAllEnded
    /\ result.status = "Em2Error"
    /\ Last(g_sent) = "ACQU:MEAS?"

\* The counter of the points read as this ReadAll found it: line 247 has
\* added loc.data_len to it, and nothing else of ReadAll changes it.
ReadBefore == nb_points_read_per_start - loc.data_len

\* The points fetched as this ReadAll found them: the start position it asked
\* the facade to read from.
FetchedBefore == args.start_position

\* C26: a ReadAll whose read raises leaves the counter of the points read and
\* the points fetched as it found them.
C26_Original ==
    ReadRaisedInReadAll =>
       /\ nb_points_fetched = FetchedBefore
       /\ nb_points_read_per_start = ReadBefore

\* ---- C27
\* Every value of the batch held has been handed to the pool by ReadOne (or
\* no batch is held).
BatchDelivered ==
    \/ new_data = <<>>
    \/ /\ \A channel \in Channels : new_data[1].channels[channel] = <<>>
       /\ new_data[1].CHAN00 \in {<<>>, << <<>> >>}

GetsToMake == loc.nb_points - Len(loc.got)

\* C28: whenever read is about to invoke get, it has a round to make and the
\* queue holds at least as many items as the rounds to make, whatever the
\* worker has enqueued since the two counters were read; so get never waits
\* with the lock, and the lock never keeps the worker's put waiting.
C28_GetNeverWaits ==
    /\ cpc = "rd_get" =>
          /\ GetsToMake > 0
          /\ Len(messages.queue) >= GetsToMake
          /\ loc.nb_points <= loc.total_count - loc.front_position
    /\ ~LockHeld

\* A read of everything available that has ended while the worker went on
\* enqueueing: the items enqueued after the counters were read stay queued.
C28_Witness ==
    /\ cpc = "done"
    /\ op = "read"
    /\ result.status = "ok"
    /\ args.nb_points = <<>>
    /\ loc.nb_points > 0
    /\ messages.total_count > loc.total_count
    /\ Len(messages.queue) = messages.total_count - loc.total_count

====
